---- MODULE Spec2Model ----
(***************************************************************************)
(* A model of the irrep package: the Abinit WFK parser (readfiles.py),     *)
(* the vector comparator (utility.py) and the BandStructure constructor    *)
(* and its reports (bandstructure.py).                                     *)
(*                                                                         *)
(* Python values are modelled as follows.  None is the empty sequence and  *)
(* a present optional value v is <<v>>.  Python indices are 0-based; a     *)
(* Python list l is a TLA+ sequence s with l[i] = s[i+1].  A float is a    *)
(* record [k, v] with k one of "num", "nan", "inf", "ninf".                *)
(***************************************************************************)
EXTENDS Integers, Sequences, FiniteSets, TLC

VARIABLES
    \* ---- ParserAbinit (readfiles.py) ----
    wfk,            \* contents of the WFK file: the header values and the records
    fpos,           \* position of fWFK: index of the next record to be read
    attrs,          \* names of the attributes set on the parser object
    kpt_count,      \* self.kpt_count, index of the next k-point to be read
    broken,         \* a call has raised after reading records
    lastCall        \* the last call of parse_kpoint and what it returned

parserVars == <<wfk, fpos, attrs, kpt_count, broken, lastCall>>

VARIABLES
    \* ---- BandStructure (bandstructure.py) ----
    args,           \* the arguments of BandStructure.__init__
    dft,            \* what the files of the DFT code hold
    pc,             \* position of the constructor
    self,           \* attributes of the BandStructure set so far
    loc,            \* local variables of the constructor
    exc,            \* message of the exception the constructor raised, "" if none
    nparsed,        \* calls of parser.parse_kpoint made by the constructor
    kpoints,        \* self.kpoints
    out,            \* what write_characters2 and json have reported
    kplist_obj,     \* the array the caller passed as kplist, None if none was passed
    files           \* the files trace.txt and trace_all.dat: their lines, None if absent

bsVars == <<args, dft, pc, self, loc, exc, nparsed, kpoints, out, kplist_obj, files>>

VARIABLES
    \* ---- sort_vectors (utility.py) ----
    list_of_vectors,    \* the argument of sort_vectors
    sortOut             \* what arg_sort_vectors and sort_vectors gave, None before the call

sortVars == <<list_of_vectors, sortOut>>

VARIABLES
    \* ---- functions called on their own (utility.py, readfiles.py, bandstructure.py) ----
    call,           \* the function called and its arguments, None if none is
    ret             \* what the call gave, None before it returns

utilVars == <<sortVars, call, ret>>

vars == <<parserVars, bsVars, utilVars>>

-----------------------------------------------------------------------------
(* Bounds of the model *)

MaxKpt == 3       \* k-points in a WFK file
MaxBands == 2     \* bands at a k-point
MaxNpw == 2       \* plane waves at a k-point
MaxEcut == 2      \* plane-wave cutoff of the DFT calculation
MaxNK == 2        \* k-points of a band structure
MaxInv == 3       \* inversion-odd states at a k-point

-----------------------------------------------------------------------------
(* Python helpers *)

None == <<>>
IsNone(x) == x = <<>>
Some(v) == <<v>>
Val(x) == x[1]

RECURSIVE Concat(_, _)
\* the records of seqs[1..n], one after the other
Concat(seqs, n) == IF n = 0 THEN <<>> ELSE Concat(seqs, n - 1) \o seqs[n]


\* Floats: a number, NaN, +inf or -inf
Num(v) == [k |-> "num", v |-> v]
NaN == [k |-> "nan", v |-> 0]
Inf == [k |-> "inf", v |-> 0]
NegInf == [k |-> "ninf", v |-> 0]

\* a < b on floats: False as soon as one of them is NaN
FLt(a, b) ==
    CASE a.k = "nan" \/ b.k = "nan" -> FALSE
      [] a.k = "num" /\ b.k = "num" -> a.v < b.v
      [] a.k = "ninf"               -> b.k # "ninf"
      [] a.k = "num"                -> b.k = "inf"
      [] OTHER                      -> FALSE

\* a - b on floats
FSub(a, b) ==
    CASE a.k = "nan" \/ b.k = "nan" -> NaN
      [] a.k = "num" /\ b.k = "num" -> Num(a.v - b.v)
      [] a.k = "num"                -> IF b.k = "inf" THEN NegInf ELSE Inf
      [] a.k = b.k                  -> NaN
      [] OTHER                      -> a

\* min(a, b) and max(a, b) of Python: a, unless b < a (b > a)
PyMin(a, b) == IF FLt(b, a) THEN b ELSE a
PyMax(a, b) == IF FLt(a, b) THEN b ELSE a

\* n / 2 of Python for an int n >= 0 is a float with one binary digit: it is
\* held as twice its value.  x % m and int(x) on such floats:
TrueDiv2(n) == n
FloatMod(twice, m) == twice % (2 * m)
IntOf(twice) == twice \div 2

-----------------------------------------------------------------------------
(*                      ParserAbinit: the WFK file                         *)

\* The records of the block of k-point k (0-based) as Abinit writes them:
\* (npw, nspinor, nband), the G-vectors, the energies and occupations, and
\* one record of coefficients per band.
BlockRecords(k, npw, nspinor, nband) ==
    << [kind |-> "dims", k |-> k, b |-> 0, npw |-> npw, nspinor |-> nspinor, nband |-> nband],
       [kind |-> "kg",   k |-> k, b |-> 0, npw |-> npw, nspinor |-> nspinor, nband |-> nband],
       [kind |-> "eig",  k |-> k, b |-> 0, npw |-> npw, nspinor |-> nspinor, nband |-> nband] >>
    \o [b \in 1..nband |->
         [kind |-> "cg", k |-> k, b |-> b - 1, npw |-> npw, nspinor |-> nspinor, nband |-> nband]]

\* The header of the file, read by parse_header as records 1 to 7.
HeaderRecord == [kind |-> "header", k |-> 0, b |-> 0, npw |-> 0, nspinor |-> 0, nband |-> 0]

\* A well-formed file: every block agrees with the header.
WFKFile(nband, npwarr, nspinor) ==
    [nkpt    |-> Len(nband),
     nband   |-> nband,
     npwarr  |-> npwarr,
     nspinor |-> nspinor,
     recs    |-> <<HeaderRecord>> \o
                 Concat([k \in 1..Len(nband) |->
                           BlockRecords(k - 1, npwarr[k], nspinor, nband[k])],
                        Len(nband))]

WFKFiles ==
    UNION { { WFKFile(nb, np, ns) :
                nb \in [1..n -> 1..MaxBands],
                np \in [1..n -> 1..MaxNpw],
                ns \in {1, 2} } : n \in 1..MaxKpt }

\* Number of 4-byte integers a record holds (read_record with "i4").
Words(rec) ==
    CASE rec.kind = "dims" -> 3
      [] rec.kind = "kg"   -> 3 * rec.npw
      [] rec.kind = "eig"  -> 4 * rec.nband
      [] rec.kind = "cg"   -> 4 * rec.npw * rec.nspinor
      [] OTHER             -> 100

\* "npw, nspinor_loc, nband = record": the three integers of a record of three.
Dims(rec) ==
    IF rec.kind = "dims" THEN <<rec.npw, rec.nspinor, rec.nband>> ELSE <<0, 0, 0>>

-----------------------------------------------------------------------------
(*                      ParserAbinit: the methods                          *)

\* ParserAbinit.__init__: opens the file and sets the cursor; nothing is parsed.
Abinit_init_attrs == {"fWFK", "kpt_count"}

\* The attributes parse_header sets on the parser.
Abinit_header_attrs == {"nband", "spinor", "npwarr", "kpt"}

\* One pass of the loop "for i in range(self.kpt_count, ik+1)" of parse_kpoint.
\* st holds the position of the file, self.kpt_count, the local variables CG,
\* eigen and kg, and the exception raised ("" when none).
KpointLoopBody(f, st, ik) ==
    LET skip == st.kpt_count < ik
        nspinor == f.nspinor                \* 2 if self.spinor else 1
        n == Len(f.recs)
        p == st.fpos
        Raise(e, q) == [st EXCEPT !.exc = e, !.fpos = q]
    IN
    IF p > n THEN Raise("EOFError", p)
    ELSE
    LET r1 == f.recs[p] IN
    IF Words(r1) # 3 THEN Raise("ValueError", p + 1)        \* unpacking into three names
    ELSE
    LET npw == Dims(r1)[1]
        nspinor_loc == Dims(r1)[2]
        nband == Dims(r1)[3]
    IN
    IF \/ npw # f.npwarr[ik + 1]
       \/ nspinor_loc # nspinor
       \/ nband # f.nband[ik + 1]
    THEN Raise("AssertionError", p + 1)
    ELSE IF p + 1 > n THEN Raise("EOFError", p + 1)
    ELSE
    LET r2 == f.recs[p + 1] IN
    IF Words(r2) # 3 * npw THEN Raise("ValueError", p + 2)  \* reshape(npw, 3)
    ELSE IF p + 2 > n THEN Raise("EOFError", p + 2)
    ELSE
    LET r3 == f.recs[p + 2] IN
    IF skip
    THEN \* one record is read for the coefficients of the block
         IF p + 3 > n THEN Raise("EOFError", p + 3)
         ELSE [st EXCEPT !.fpos = p + 4, !.kg = Some(r2),
                         !.kpt_count = @ + 1]
    ELSE \* one record per band
         LET bad == { b \in 1..nband :
                        \/ p + 2 + b > n
                        \/ Words(f.recs[p + 2 + b]) # 4 * npw * nspinor }
         IN
         IF bad # {}
         THEN LET b0 == CHOOSE b \in bad : \A c \in bad : b <= c IN
              IF p + 2 + b0 > n THEN Raise("EOFError", p + 2 + b0)
              ELSE Raise("ValueError", p + 3 + b0)
         ELSE [st EXCEPT !.fpos = p + 3 + nband,
                         !.kg = Some(r2),
                         !.eigen = Some(r3),
                         !.CG = Some([b \in 1..nband |-> f.recs[p + 2 + b]]),
                         !.kpt_count = @ + 1]

RECURSIVE KpointLoop(_, _, _, _)
\* the remaining `left` passes of the loop; an exception ends it
KpointLoop(f, st, ik, left) ==
    IF left <= 0 \/ st.exc # "" THEN st
    ELSE KpointLoop(f, KpointLoopBody(f, st, ik), ik, left - 1)

ParseKpoint_wrong(f, pos, count, as, ik) ==
    LET st0 == [fpos |-> pos, kpt_count |-> count, CG |-> None, eigen |-> None,
                kg |-> None, exc |-> ""]
    IN
    IF "spinor" \notin as
    THEN [st0 EXCEPT !.exc = "AttributeError"]
    ELSE KpointLoop(f, st0, ik, ik + 1 - count)

\* parse_kpoint(ik): the state after the call and what it returns.
ParseKpoint(f, pos, count, as, ik) ==
    LET st0 == [fpos |-> pos, kpt_count |-> count, CG |-> None, eigen |-> None,
                kg |-> None, exc |-> ""]
    IN
    IF "spinor" \notin as
    THEN [st0 EXCEPT !.exc = "AttributeError"]          \* self.spinor
    ELSE LET st == KpointLoop(f, st0, ik, ik + 1 - count) IN
         IF st.exc = "" /\ IsNone(st.CG)
         THEN [st EXCEPT !.exc = "UnboundLocalError"]   \* return CG, eigen, kg
         ELSE st

NoCall == [called |-> FALSE, ik |-> 0, cursor |-> 0, sound |-> FALSE, exc |-> "",
           CG |-> None, eigen |-> None, kg |-> None, nread |-> 0]

\* the directory without trace.txt and trace_all.dat
NoFiles == [name \in {"trace.txt", "trace_all.dat"} |-> None]

\* the variables of the BandStructure, when only the parser is looked at
IdleBS ==
    /\ args = None /\ dft = None /\ pc = "idle" /\ self = None /\ loc = None
    /\ exc = "" /\ nparsed = 0 /\ kpoints = <<>> /\ out = None
    /\ kplist_obj = None /\ files = NoFiles

\* the variables of sort_vectors, when it is not looked at
IdleSort == list_of_vectors = <<>> /\ sortOut = None
IdleUtil == IdleSort /\ call = None /\ ret = None

InitParser ==
    /\ wfk \in WFKFiles
    /\ fpos = 1
    /\ attrs = Abinit_init_attrs
    /\ kpt_count = 0
    /\ broken = FALSE
    /\ lastCall = NoCall

\* parse_header, called once on the parser just constructed
Abinit_parse_header ==
    /\ fpos = 1
    /\ "spinor" \notin attrs
    /\ fpos' = 2
    /\ attrs' = attrs \cup Abinit_header_attrs
    /\ UNCHANGED <<wfk, kpt_count, broken, lastCall>>
    /\ UNCHANGED <<bsVars, utilVars>>

\* parse_kpoint(ik) for an index ik of the file
Abinit_parse_kpoint(ik) ==
    LET st == ParseKpoint(wfk, fpos, kpt_count, attrs, ik) IN
    /\ fpos' = st.fpos
    /\ kpt_count' = st.kpt_count
    /\ broken' = (broken \/ (st.exc # "" /\ st.fpos # fpos))
    /\ lastCall' = [called |-> TRUE, ik |-> ik, cursor |-> kpt_count,
                    sound |-> ("spinor" \in attrs /\ ~broken),
                    exc |-> st.exc,
                    CG |-> IF st.exc = "" THEN st.CG ELSE None,
                    eigen |-> IF st.exc = "" THEN st.eigen ELSE None,
                    kg |-> IF st.exc = "" THEN st.kg ELSE None,
                    nread |-> st.fpos - fpos]
    /\ UNCHANGED <<wfk, attrs>>
    /\ UNCHANGED <<bsVars, utilVars>>

NextAbinit ==
    \/ Abinit_parse_header
    \/ \E ik \in 0..(wfk.nkpt - 1) : Abinit_parse_kpoint(ik)

InitAbinit == InitParser /\ IdleBS /\ IdleUtil

SpecAbinit == InitAbinit /\ [][NextAbinit]_vars

\* The data of block ik of the file.
BlockData(f, ik) ==
    LET recs == BlockRecords(ik, f.npwarr[ik + 1], f.nspinor, f.nband[ik + 1]) IN
    [CG |-> Some([b \in 1..f.nband[ik + 1] |-> recs[3 + b]]),
     eigen |-> Some(recs[3]),
     kg |-> Some(recs[2])]

\* Every k-point of the file has the same number of plane waves and of bands,
\* so that the header values of any k-point fit any block.
SameDims(f) ==
    \A j, k \in 1..f.nkpt : f.npwarr[j] = f.npwarr[k] /\ f.nband[j] = f.nband[k]

\* C1: parse_kpoint(ik) called with ik >= kpt_count (on a parser whose header
\* was parsed and that has not failed) returns the energies, G-vectors and
\* coefficients of block ik, however many blocks are skipped and however many
\* bands (one coefficient record each) they hold.  Stated for the files whose
\* k-points share npw and nband, where the header checks cannot fail.
C1_ReturnsBlock ==
    (/\ lastCall.called /\ lastCall.sound
     /\ lastCall.ik >= lastCall.cursor
     /\ SameDims(wfk))
        => /\ lastCall.exc = ""
           /\ lastCall.CG = BlockData(wfk, lastCall.ik).CG
           /\ lastCall.eigen = BlockData(wfk, lastCall.ik).eigen
           /\ lastCall.kg = BlockData(wfk, lastCall.ik).kg

\* C23: parse_kpoint(ik) called with ik below the cursor kpt_count fails, reads
\* no record and leaves kpt_count as it was; a call that succeeds leaves
\* kpt_count = ik + 1; no call makes kpt_count smaller.
C23_Sequential ==
    lastCall.called =>
        /\ lastCall.ik < lastCall.cursor =>
              /\ lastCall.exc # ""
              /\ lastCall.CG = None /\ lastCall.eigen = None /\ lastCall.kg = None
              /\ lastCall.nread = 0
              /\ kpt_count = lastCall.cursor
        /\ lastCall.exc = "" => kpt_count = lastCall.ik + 1
        /\ kpt_count >= lastCall.cursor

\* a request for k-point 0 again, after k-points 0 and 1 were read in turn
C23_Witness ==
    /\ lastCall.called /\ lastCall.sound
    /\ lastCall.ik = 0 /\ lastCall.cursor = 2
    /\ lastCall.exc = "UnboundLocalError"

\* C24: on a parser whose header was parsed and that has not failed, a call
\* parse_kpoint(ik) with ik >= kpt_count does not fail an assertion that
\* compares a block with the header: every block of the file agrees with the
\* header values of its own k-point.
C24_OwnHeader ==
    (/\ lastCall.called /\ lastCall.sound
     /\ lastCall.ik >= lastCall.cursor)
        => lastCall.exc # "AssertionError"

-----------------------------------------------------------------------------
(*                  BandStructure.__init__: arguments and files            *)

\* str.lower() on the strings the model uses
Lower(str) ==
    CASE str = "AUTO"   -> "auto"
      [] str = "Auto"   -> "auto"
      [] str = "DOWN"   -> "down"
      [] str = "Down"   -> "down"
      [] str = "UP"     -> "up"
      [] str = "DW"     -> "dw"
      [] str = "VASP"   -> "vasp"
      [] str = "Abinit" -> "abinit"
      [] OTHER          -> str

\* float(str): the number, or None where float() raises ValueError
ParseFloat(str) ==
    CASE str = "0.0" -> Some(0)
      [] str = "1.0" -> Some(1)
      [] str = "-1"  -> Some(-1)
      [] OTHER       -> None

Max(S) == CHOOSE x \in S : \A y \in S : y <= x
Range(seq) == { seq[i] : i \in 1..Len(seq) }

NoSelf == [spinor |-> None, Ecut0 |-> None, Ecut |-> None, efermi |-> None]
NoLoc == [code |-> "", spin_channel |-> None, NK |-> None, NBin |-> None,
          NBin_list |-> None, IBstartE |-> None, EF_in |-> None, missing |-> "",
          warned |-> FALSE, IBstart |-> None, IBend |-> None, NBout |-> None,
          kplist |-> None]

\* The attributes of the parser that the abinit branch reads, in order.
AbinitReads == <<"spinor", "rprimd", "xred", "typat", "ecut", "efermi", "nband", "nkpt">>

\* The first attribute the abinit branch reads that is not set ("" if none).
FirstMissing(as) ==
    LET miss == { i \in 1..Len(AbinitReads) : AbinitReads[i] \notin as } IN
    IF miss = {} THEN ""
    ELSE AbinitReads[CHOOSE i \in miss : \A j \in miss : i <= j]

ReadFiles_wrong(a, d, f) ==
    LET code == Lower(a.code)
        sc0 == IF IsNone(a.spin_channel) THEN None ELSE Some(Lower(Val(a.spin_channel)))
        spin_channel == IF sc0 = Some("down") THEN Some("dw") ELSE sc0
        l0 == [NoLoc EXCEPT !.code = code, !.spin_channel = spin_channel]
        Raise(e, s, l) == [exc |-> e, self |-> s, loc |-> l]
        Ok(s, l) == [exc |-> "", self |-> s, loc |-> l]
    IN
    CASE code = "vasp" ->
           IF IsNone(a.spinor)
           THEN Raise("RuntimeError: spinor should be specified", NoSelf, l0)
           ELSE LET s1 == [NoSelf EXCEPT !.spinor = a.spinor] IN
                IF a.onlysym THEN Ok(s1, l0)
                ELSE Ok([s1 EXCEPT !.Ecut0 = Some(d.Ecut0)],
                        [l0 EXCEPT !.NK = Some(d.NK), !.NBin = Some(d.NBin),
                                   !.EF_in = None])
      [] code = "abinit" ->
           LET as == Abinit_init_attrs IN         \* parser = ParserAbinit(fWFK)
           IF FirstMissing(as) # ""
           THEN Raise("AttributeError", NoSelf, [l0 EXCEPT !.missing = FirstMissing(as)])
           ELSE Ok([NoSelf EXCEPT !.spinor = Some(f.nspinor = 2),
                                  !.Ecut0 = Some(d.Ecut0)],
                   [l0 EXCEPT !.EF_in = d.EF_in,
                              !.NBin = Some(Max(Range(f.nband))),
                              !.NK = Some(f.nkpt)])
      [] code = "espresso" ->
           LET s1 == [NoSelf EXCEPT !.spinor = Some(d.spinor), !.Ecut0 = Some(d.Ecut0)]
               l1 == [l0 EXCEPT !.EF_in = d.EF_in, !.NK = Some(d.NK),
                                !.NBin_list = Some(d.NBin_list), !.IBstartE = Some(0)]
           IN
           IF d.spinor /\ d.spinpol
           THEN Raise("RuntimeError: both noncollinear and spin-polarised", s1, l1)
           ELSE IF d.spinpol
           THEN IF IsNone(spin_channel)
                THEN Raise("ValueError: need to select a spin channel", s1, l1)
                ELSE IF Val(spin_channel) \notin {"dw", "up"}
                THEN Raise("AssertionError", s1, l1)
                ELSE IF Val(spin_channel) = "dw"
                THEN Ok(s1, [l1 EXCEPT !.IBstartE = Some(d.NBin_list[1]),
                                       !.NBin = Some(d.NBin_list[1])])
                ELSE Ok(s1, [l1 EXCEPT !.NBin = Some(d.NBin_list[1])])
           ELSE IF ~IsNone(spin_channel)
                THEN Raise("ValueError: non-polarized, but spin channel is set", s1,
                           [l1 EXCEPT !.NBin = Some(d.NBin_list[1])])
                ELSE Ok(s1, [l1 EXCEPT !.NBin = Some(d.NBin_list[1])])
      [] code = "wannier90" ->
           IF IsNone(a.Ecut)
           THEN Raise("RuntimeError: Ecut mandatory for Wannier90", NoSelf, l0)
           ELSE Ok([NoSelf EXCEPT !.Ecut0 = a.Ecut, !.spinor = Some(d.spinor)],
                   [l0 EXCEPT !.NK = Some(d.NK), !.NBin = Some(d.NBin),
                              !.EF_in = d.EF_in])
      [] OTHER -> Raise("RuntimeError: Unknown/unsupported code", NoSelf, l0)

\* Lines 141-212: the parser of the code is made and the header values are
\* taken from it.  a: arguments, d: the files, f: the WFK file (abinit).
\* Gives the exception raised ("" if none), the attributes and the locals.
ReadFiles(a, d, f) ==
    LET code == Lower(a.code)
        sc0 == IF IsNone(a.spin_channel) THEN None ELSE Some(Lower(Val(a.spin_channel)))
        spin_channel == IF sc0 = Some("down") THEN Some("dw") ELSE sc0
        l0 == [NoLoc EXCEPT !.code = code, !.spin_channel = spin_channel]
        Raise(e, s, l) == [exc |-> e, self |-> s, loc |-> l]
        Ok(s, l) == [exc |-> "", self |-> s, loc |-> l]
    IN
    CASE code = "vasp" ->
           IF IsNone(a.spinor)
           THEN Raise("RuntimeError: spinor should be specified", NoSelf, l0)
           ELSE LET s1 == [NoSelf EXCEPT !.spinor = a.spinor] IN
                IF a.onlysym THEN Ok(s1, l0)
                ELSE Ok([s1 EXCEPT !.Ecut0 = Some(d.Ecut0)],
                        [l0 EXCEPT !.NK = Some(d.NK), !.NBin = Some(d.NBin),
                                   !.EF_in = None])
      [] code = "abinit" ->
           LET as == Abinit_init_attrs IN         \* parser = ParserAbinit(fWFK)
           IF FirstMissing(as) # ""
           THEN Raise("AttributeError", NoSelf, [l0 EXCEPT !.missing = FirstMissing(as)])
           ELSE Ok([NoSelf EXCEPT !.spinor = Some(f.nspinor = 2),
                                  !.Ecut0 = Some(d.Ecut0)],
                   [l0 EXCEPT !.EF_in = d.EF_in,
                              !.NBin = Some(Max(Range(f.nband))),
                              !.NK = Some(f.nkpt)])
      [] code = "espresso" ->
           LET s1 == [NoSelf EXCEPT !.spinor = Some(d.spinor), !.Ecut0 = Some(d.Ecut0)]
               l1 == [l0 EXCEPT !.EF_in = d.EF_in, !.NK = Some(d.NK),
                                !.NBin_list = Some(d.NBin_list), !.IBstartE = Some(0)]
           IN
           IF d.spinor /\ d.spinpol
           THEN Raise("RuntimeError: both noncollinear and spin-polarised", s1, l1)
           ELSE IF d.spinpol
           THEN IF IsNone(spin_channel)
                THEN Raise("ValueError: need to select a spin channel", s1, l1)
                ELSE IF Val(spin_channel) \notin {"dw", "up"}
                THEN Raise("AssertionError", s1, l1)
                ELSE IF Val(spin_channel) = "dw"
                THEN Ok(s1, [l1 EXCEPT !.IBstartE = Some(d.NBin_list[1]),
                                       !.NBin = Some(d.NBin_list[2])])
                ELSE Ok(s1, [l1 EXCEPT !.NBin = Some(d.NBin_list[1])])
           ELSE IF ~IsNone(spin_channel)
                THEN Raise("ValueError: non-polarized, but spin channel is set", s1,
                           [l1 EXCEPT !.NBin = Some(d.NBin_list[1])])
                ELSE Ok(s1, [l1 EXCEPT !.NBin = Some(d.NBin_list[1])])
      [] code = "wannier90" ->
           IF IsNone(a.Ecut)
           THEN Raise("RuntimeError: Ecut mandatory for Wannier90", NoSelf, l0)
           ELSE Ok([NoSelf EXCEPT !.Ecut0 = a.Ecut, !.spinor = Some(d.spinor)],
                   [l0 EXCEPT !.NK = Some(d.NK), !.NBin = Some(d.NBin),
                              !.EF_in = d.EF_in])
      [] OTHER -> Raise("RuntimeError: Unknown/unsupported code", NoSelf, l0)

FermiEnergy_wrong(EF, EF_in) ==
    IF EF = "auto"
    THEN IF IsNone(EF_in)
         THEN [exc |-> "", efermi |-> Some(0), warned |-> TRUE]
         ELSE [exc |-> "", efermi |-> EF_in, warned |-> FALSE]
    ELSE IF IsNone(ParseFloat(EF))
         THEN [exc |-> "RuntimeError: Invalid value for keyword EF",
               efermi |-> None, warned |-> FALSE]
         ELSE [exc |-> "", efermi |-> ParseFloat(EF), warned |-> FALSE]

\* Lines 224-237: the Fermi energy.  Gives [exc, efermi, warned].
FermiEnergy(EF, EF_in) ==
    IF Lower(EF) = "auto"
    THEN IF IsNone(EF_in)
         THEN [exc |-> "", efermi |-> Some(0), warned |-> TRUE]
         ELSE [exc |-> "", efermi |-> EF_in, warned |-> FALSE]
    ELSE IF IsNone(ParseFloat(EF))
         THEN [exc |-> "RuntimeError: Invalid value for keyword EF",
               efermi |-> None, warned |-> FALSE]
         ELSE [exc |-> "", efermi |-> ParseFloat(EF), warned |-> FALSE]

\* Lines 240-246: the band window, 0-based start and exclusive end.
BandWindow_wrong(IBstart, IBend, NBin) ==
    LET st == IF IsNone(IBstart) \/ Val(IBstart) < 0 THEN 0 ELSE Val(IBstart) - 1
        en == IF IsNone(IBend) \/ Val(IBend) <= 0 \/ Val(IBend) > NBin
              THEN NBin ELSE Val(IBend)
    IN [IBstart |-> st, IBend |-> en, NBout |-> en - st]

BandWindow(IBstart, IBend, NBin) ==
    LET st == IF IsNone(IBstart) \/ Val(IBstart) <= 0 THEN 0 ELSE Val(IBstart) - 1
        en == IF IsNone(IBend) \/ Val(IBend) <= 0 \/ Val(IBend) > NBin
              THEN NBin ELSE Val(IBend)
    IN [IBstart |-> st, IBend |-> en, NBout |-> en - st]

\* Lines 251-254: the cutoff used to calculate traces.
EffectiveEcut_wrong(Ecut, Ecut0) ==
    IF IsNone(Ecut) \/ Val(Ecut) > Ecut0 \/ Val(Ecut) < 0 THEN Ecut0 ELSE Val(Ecut)

EffectiveEcut(Ecut, Ecut0) ==
    IF IsNone(Ecut) \/ Val(Ecut) > Ecut0 \/ Val(Ecut) <= 0 THEN Ecut0 ELSE Val(Ecut)

-----------------------------------------------------------------------------
(*                  BandStructure.__init__: the steps                      *)

Ctor_read ==
    /\ pc = "init"
    /\ LET r == ReadFiles(args, dft, wfk) IN
       /\ self' = r.self
       /\ loc' = r.loc
       /\ exc' = r.exc
       /\ pc' = IF r.exc # "" THEN "raised" ELSE "spacegroup"
       /\ attrs' = IF r.loc.code = "abinit" THEN Abinit_init_attrs ELSE attrs
    /\ UNCHANGED <<wfk, fpos, kpt_count, broken, lastCall>>
    /\ UNCHANGED <<kplist_obj, files, args, dft, nparsed, kpoints, out>>
    /\ UNCHANGED utilVars

\* Lines 214-222: the space group is found; with onlysym the constructor returns.
Ctor_spacegroup ==
    /\ pc = "spacegroup"
    /\ pc' = IF args.onlysym THEN "returned" ELSE "fermi"
    /\ UNCHANGED <<parserVars, utilVars>>
    /\ UNCHANGED <<kplist_obj, files, args, dft, self, loc, exc, nparsed, kpoints, out>>

Ctor_fermi ==
    /\ pc = "fermi"
    /\ LET r == FermiEnergy(args.EF, loc.EF_in) IN
       /\ self' = [self EXCEPT !.efermi = r.efermi]
       /\ loc' = [loc EXCEPT !.warned = r.warned]
       /\ exc' = r.exc
       /\ pc' = IF r.exc # "" THEN "raised" ELSE "window"
    /\ UNCHANGED <<parserVars, utilVars>>
    /\ UNCHANGED <<kplist_obj, files, args, dft, nparsed, kpoints, out>>

\* Lines 239-248
Ctor_window ==
    /\ pc = "window"
    /\ LET w == BandWindow(args.IBstart, args.IBend, Val(loc.NBin)) IN
       /\ loc' = [loc EXCEPT !.IBstart = Some(w.IBstart), !.IBend = Some(w.IBend),
                             !.NBout = Some(w.NBout)]
       /\ exc' = IF w.NBout <= 0 THEN "RuntimeError: No bands to calculate" ELSE ""
       /\ pc' = IF w.NBout <= 0 THEN "raised" ELSE "ecut"
    /\ UNCHANGED <<parserVars, utilVars>>
    /\ UNCHANGED <<kplist_obj, files, args, dft, self, nparsed, kpoints, out>>

\* Lines 250-254
Ctor_ecut ==
    /\ pc = "ecut"
    /\ self' = [self EXCEPT !.Ecut = Some(EffectiveEcut(args.Ecut, Val(self.Ecut0)))]
    /\ pc' = "kplist"
    /\ UNCHANGED <<parserVars, utilVars>>
    /\ UNCHANGED <<kplist_obj, files, args, dft, loc, exc, nparsed, kpoints, out>>

RECURSIVE InRange(_, _, _)
\* [k for k in kplist if k >= 0 and k < NK], over the first n entries
InRange(kplist, NK, n) ==
    IF n = 0 THEN <<>>
    ELSE LET k == kplist[n]
             head == InRange(kplist, NK, n - 1)
         IN IF k >= 0 /\ k < NK THEN Append(head, k) ELSE head

KpList_wrong(kplist, NK) ==
    IF IsNone(kplist) THEN [i \in 1..NK |-> i - 1]
    ELSE LET k == Val(kplist) IN InRange(k, NK, Len(k))

\* Lines 271-276: the 0-based indices of the k-points to parse
KpList(kplist, NK) ==
    IF IsNone(kplist) THEN [i \in 1..NK |-> i - 1]
    ELSE LET minus1 == [i \in 1..Len(Val(kplist)) |-> Val(kplist)[i] - 1]
         IN InRange(minus1, NK, Len(minus1))

\* Line 275, "kplist -= 1": the array the caller passed, after the constructor
\* has subtracted one from each of its entries in place
MinusOne(kplist) ==
    IF IsNone(kplist) THEN None
    ELSE Some([i \in 1..Len(Val(kplist)) |-> Val(kplist)[i] - 1])

\* Lines 271-279: the indices of the k-points to parse
Ctor_kplist ==
    /\ pc = "kplist"
    /\ loc' = [loc EXCEPT !.kplist = Some(KpList(args.kplist, Val(loc.NK)))]
    /\ kplist_obj' = MinusOne(kplist_obj)
    /\ kpoints' = <<>>
    /\ pc' = "kpoints"
    /\ UNCHANGED <<parserVars, utilVars>>
    /\ UNCHANGED <<files, args, dft, self, exc, nparsed, out>>

\* Lines 283-318: the cutoffs handed to calc_gvectors (vasp, wannier90) or to
\* sortIG (abinit, espresso) for the G-vectors of a k-point.  Ecut is the
\* argument of the constructor, None if not given; Ecut0 and selfEcut are
\* self.Ecut0 and self.Ecut.
Gvectors(code, Ecut, Ecut0, selfEcut) ==
    CASE code = "vasp"      -> [fn |-> "calc_gvectors", Ecut0 |-> Ecut0, Ecut |-> Ecut]
      [] code = "abinit"    -> [fn |-> "sortIG", Ecut0 |-> Ecut0, Ecut |-> selfEcut]
      [] code = "espresso"  -> [fn |-> "sortIG", Ecut0 |-> Ecut0, Ecut |-> Ecut]
      [] OTHER              -> [fn |-> "calc_gvectors", Ecut0 |-> Ecut, Ecut |-> Ecut]

\* len(x[a:b]) for a sequence x of n items and 0 <= a, 0 <= b
SliceLen(n, a, b) ==
    LET lo == IF a < n THEN a ELSE n
        hi == IF b < n THEN b ELSE n
    IN IF hi > lo THEN hi - lo ELSE 0

\* Lines 320-347: the Kpoint made from the energies and the NWF rows of
\* coefficients the parser returned, with the G-vectors kg.
\* Energy[IBend] raises IndexError when the k-point has no such band.
NewKpoint(ik, Energy, NWF, kg, IBstart, IBend, efermi) ==
    LET upper == IF IBend < Len(Energy) THEN Num(Energy[IBend + 1] - efermi) ELSE NaN
        n == SliceLen(Len(Energy), IBstart, IBend)
    IN [ik |-> ik,
        upper |-> upper,
        Energy |-> [i \in 1..n |-> Energy[IBstart + i] - efermi],
        NWF |-> SliceLen(NWF, IBstart, IBend),
        ig |-> kg,
        num_bandinvs |-> None]

\* the record kept of a call of ParserAbinit.parse_kpoint
CallRecord(st, ik, count, sound) ==
    [called |-> TRUE, ik |-> ik, cursor |-> count, sound |-> sound,
     exc |-> st.exc,
     CG |-> IF st.exc = "" THEN st.CG ELSE None,
     eigen |-> IF st.exc = "" THEN st.eigen ELSE None,
     kg |-> IF st.exc = "" THEN st.kg ELSE None,
     nread |-> st.fpos - fpos]

\* Lines 280-347: one pass of the loop over kplist
Ctor_kpoint ==
    /\ pc = "kpoints"
    /\ nparsed < Len(Val(loc.kplist))
    /\ LET ik == Val(loc.kplist)[nparsed + 1]
           abinit == loc.code = "abinit"
           st == ParseKpoint(wfk, fpos, kpt_count, attrs, ik)
           pexc == IF abinit THEN st.exc ELSE ""
           Energy == IF abinit THEN dft.Energies[Val(st.eigen).k + 1]
                     ELSE dft.Energies[ik + 1]
           NWF == IF abinit THEN Len(Val(st.CG)) ELSE Val(loc.NBin)
           kg == Gvectors(loc.code, args.Ecut, self.Ecut0, self.Ecut)
       IN
       /\ nparsed' = nparsed + 1
       /\ IF abinit
          THEN /\ fpos' = st.fpos
               /\ kpt_count' = st.kpt_count
               /\ broken' = (broken \/ (st.exc # "" /\ st.fpos # fpos))
               /\ lastCall' = CallRecord(st, ik, kpt_count, ~broken)
               /\ loc' = [loc EXCEPT !.NBin = Some(wfk.nband[ik + 1])]
          ELSE UNCHANGED <<fpos, kpt_count, broken, lastCall, loc>>
       /\ IF pexc # ""
          THEN /\ exc' = pexc
               /\ pc' = "raised"
               /\ UNCHANGED kpoints
          ELSE /\ kpoints' = Append(kpoints,
                                    NewKpoint(ik, Energy, NWF, kg, Val(loc.IBstart),
                                              Val(loc.IBend), Val(self.efermi)))
               /\ UNCHANGED <<exc, pc>>
    /\ UNCHANGED <<wfk, attrs, args, dft, self, out, kplist_obj, files>>
    /\ UNCHANGED utilVars

\* the loop has ended: the constructor returns
Ctor_return ==
    /\ pc = "kpoints"
    /\ nparsed = Len(Val(loc.kplist))
    /\ pc' = "done"
    /\ UNCHANGED <<parserVars, utilVars>>
    /\ UNCHANGED <<kplist_obj, files, args, dft, self, loc, exc, nparsed, kpoints, out>>

-----------------------------------------------------------------------------
(*                  BandStructure: gaps, inversions and reports            *)

RECURSIVE gap_direct_wrong(_)
gap_direct_wrong(kps) ==
    IF kps = <<>> THEN Inf
    ELSE LET KP == kps[Len(kps)]
             gap == gap_direct_wrong(SubSeq(kps, 1, Len(kps) - 1))
         IN PyMin(FSub(KP.upper, Num(KP.Energy[Len(KP.Energy)])), gap)

RECURSIVE gap_direct(_)
\* the property gap_direct: the loop over self.kpoints, in list order
gap_direct(kps) ==
    IF kps = <<>> THEN Inf
    ELSE LET KP == kps[Len(kps)]
             gap == gap_direct(SubSeq(kps, 1, Len(kps) - 1))
         IN PyMin(gap, FSub(KP.upper, Num(KP.Energy[Len(KP.Energy)])))

RECURSIVE min_upper(_)
min_upper(kps) ==
    IF kps = <<>> THEN Inf
    ELSE PyMin(min_upper(SubSeq(kps, 1, Len(kps) - 1)), kps[Len(kps)].upper)

RECURSIVE min_upper_wrong(_)
min_upper_wrong(kps) ==
    IF kps = <<>> THEN Inf
    ELSE PyMin(kps[Len(kps)].upper, min_upper_wrong(SubSeq(kps, 1, Len(kps) - 1)))

RECURSIVE max_lower(_)
max_lower(kps) ==
    IF kps = <<>> THEN NegInf
    ELSE LET KP == kps[Len(kps)] IN
         PyMax(max_lower(SubSeq(kps, 1, Len(kps) - 1)), Num(KP.Energy[Len(KP.Energy)]))

gap_indirect_wrong(kps) == FSub(min_upper_wrong(kps), max_lower(kps))

\* the property gap_indirect
gap_indirect(kps) == FSub(min_upper(kps), max_lower(kps))

RECURSIVE num_bandinvs(_)
\* the property num_bandinvs: the k-points without inversion add nothing
num_bandinvs(kps) ==
    IF kps = <<>> THEN 0
    ELSE LET KP == kps[Len(kps)]
             rest == num_bandinvs(SubSeq(kps, 1, Len(kps) - 1))
         IN IF ~IsNone(KP.num_bandinvs) THEN rest + Val(KP.num_bandinvs) ELSE rest

NoOut == [text |-> None, json |-> None]

\* identify_irreps: Kpoint.identify_irreps finds, at each k-point, whether it is
\* invariant under inversion and how many of its states are inversion-odd.
identify_irreps ==
    /\ pc = "done"
    /\ kpoints' = [i \in 1..Len(kpoints) |->
                     [kpoints[i] EXCEPT !.num_bandinvs = dft.inv[kpoints[i].ik + 1]]]
    /\ pc' = "identified"
    /\ UNCHANGED <<parserVars, utilVars>>
    /\ UNCHANGED <<kplist_obj, files, args, dft, self, loc, exc, nparsed, out>>

\* Lines 390-403 of write_characters2: the totals printed after the k-points
TextReport(kps, spinor) ==
    LET total == num_bandinvs(kps) IN
    [total |-> total,
     pairs |-> IF spinor THEN Some(IntOf(TrueDiv2(total))) ELSE None,
     states |-> IF spinor THEN None ELSE Some(total),
     Z2 |-> Some(IntOf(FloatMod(TrueDiv2(total), 2))),
     Z4 |-> Some(IntOf(FloatMod(TrueDiv2(total), 4))),
     gap_indirect |-> gap_indirect(kps),
     gap_direct |-> gap_direct(kps)]

\* Lines 422-429 of json
JsonReport(kps, spinor) ==
    LET total == num_bandinvs(kps) IN
    [total |-> total,
     pairs |-> IF spinor THEN Some(IntOf(TrueDiv2(total))) ELSE None,
     states |-> IF spinor THEN None ELSE Some(total),
     Z2 |-> None,
     Z4 |-> IF spinor THEN Some(IntOf(TrueDiv2(total)) % 4) ELSE None,
     gap_indirect |-> gap_indirect(kps),
     gap_direct |-> gap_direct(kps)]

write_characters2 ==
    /\ pc = "identified"
    /\ out' = [out EXCEPT !.text = Some(TextReport(kpoints, Val(self.spinor)))]
    /\ UNCHANGED <<parserVars, utilVars>>
    /\ UNCHANGED <<kplist_obj, files, args, dft, pc, self, loc, exc, nparsed, kpoints>>

json ==
    /\ pc = "identified"
    /\ out' = [out EXCEPT !.json = Some(JsonReport(kpoints, Val(self.spinor)))]
    /\ UNCHANGED <<parserVars, utilVars>>
    /\ UNCHANGED <<kplist_obj, files, args, dft, pc, self, loc, exc, nparsed, kpoints>>

getNbands_wrong(kps) ==
    LET nbarray == [i \in 1..Len(kps) |-> Len(kps[i].Energy)] IN
    IF Len(nbarray) = 0
    THEN [exc |-> "RuntimeError: do we have any k-points???", value |-> None]
    ELSE [exc |-> "", value |-> Some(nbarray[1])]

\* getNbands, lines 603-616; Nband of a Kpoint is the number of its energies
getNbands(kps) ==
    LET nbarray == [i \in 1..Len(kps) |-> Len(kps[i].Energy)] IN
    IF Cardinality(Range(nbarray)) > 1
    THEN [exc |-> "RuntimeError: the numbers of bands differs over k-points",
          value |-> None]
    ELSE IF Len(nbarray) = 0
    THEN [exc |-> "RuntimeError: do we have any k-points???", value |-> None]
    ELSE [exc |-> "", value |-> Some(nbarray[1])]

\* self.getNbands() on the BandStructure that was built
call_getNbands ==
    /\ pc \in {"done", "identified"}
    /\ IsNone(ret)
    /\ call' = Some([fn |-> "getNbands"])
    /\ ret' = Some(getNbands(kpoints))
    /\ UNCHANGED <<parserVars, bsVars, sortVars>>

OverlapPairs_wrong(n) == [i \in 1..(n - 1) |-> <<i, i + 1>>]

\* zip(self.kpoints, self.kpoints[1:] + [self.kpoints[0]]) for n >= 1 k-points,
\* each named by its position in self.kpoints
OverlapPairs(n) ==
    LET x == [i \in 1..n |-> i]
        y == SubSeq(x, 2, n) \o << x[1] >>
        len == IF Len(x) < Len(y) THEN Len(x) ELSE Len(y)
    IN [i \in 1..len |-> << x[i], y[i] >>]

\* Lines 769-772 of zakphase and 811-814 of wcc: the overlaps x.overlap(y), in
\* the order in which they are made and multiplied
Overlaps(kps) ==
    IF kps = <<>> THEN [exc |-> "IndexError", overlaps |-> <<>>]
    ELSE [exc |-> "", overlaps |-> OverlapPairs(Len(kps))]

zakphase ==
    /\ pc \in {"done", "identified"}
    /\ IsNone(ret)
    /\ call' = Some([fn |-> "zakphase"])
    /\ ret' = Some(Overlaps(kpoints))
    /\ UNCHANGED <<parserVars, bsVars, sortVars>>

wcc ==
    /\ pc \in {"done", "identified"}
    /\ IsNone(ret)
    /\ call' = Some([fn |-> "wcc"])
    /\ ret' = Some(Overlaps(kpoints))
    /\ UNCHANGED <<parserVars, bsVars, sortVars>>

\* Bound of the index of a symmetry operation
MaxSym == 2

\* Eigenvalues of a symmetry operation are held in units of 0.01, on a line:
\* their real parts (groupKramers) or their angles, which for eigenvalues close
\* to each other differ as the eigenvalues do.
BorderGap == 1      \* 0.01: a larger gap between neighbours is a border
NearGap == 5        \* 0.05: a k-point is kept if its nearest eigenvalue is closer

RECURSIVE GCD(_, _)
GCD(m, n) == IF n = 0 THEN m ELSE GCD(n, m % n)

RECURSIVE Sum(_, _)
Sum(l, n) == IF n = 0 THEN 0 ELSE Sum(l, n - 1) + l[n]

\* a fraction num/den in lowest terms; the mean of nothing is NaN
Frac(num, den) ==
    LET g == GCD(IF num < 0 THEN -num ELSE num, den) IN
    [k |-> "num", num |-> num \div g, den |-> den \div g]
NaNKey == [k |-> "nan", num |-> 0, den |-> 0]

\* l.mean() of numpy
Mean(l) == IF Len(l) = 0 THEN NaNKey ELSE Frac(Sum(l, Len(l)), Len(l))

RECURSIVE Insert(_, _)
Insert(l, v) ==
    IF l = <<>> THEN << v >>
    ELSE IF v < l[1] THEN << v >> \o l ELSE << l[1] >> \o Insert(Tail(l), v)

RECURSIVE Sorted(_, _)
\* allvalues[np.argsort(...)] of the first n values
Sorted(l, n) == IF n = 0 THEN <<>> ELSE Insert(Sorted(l, n - 1), l[n])

\* the elements of a set of numbers in ascending order (np.where)
RECURSIVE Ascend(_)
Ascend(S) ==
    IF S = {} THEN <<>>
    ELSE LET lo == CHOOSE x \in S : \A y \in S : x <= y IN << lo >> \o Ascend(S \ {lo})

\* Lines 694-701: the means of allvalues[b1:b2], groupKramers; <<>> if the
\* values make one cluster
ClustersKramers(allvalues) ==
    LET n == Len(allvalues)
        inner == { i + 1 : i \in { j \in 1..(n - 1) :
                                     allvalues[j + 1] - allvalues[j] > BorderGap } }
        borders == << 0 >> \o Ascend(inner) \o << n >>
    IN IF Len(borders) > 2
       THEN [j \in 1..(Len(borders) - 1) |->
               Mean(SubSeq(allvalues, borders[j] + 1, borders[j + 1]))]
       ELSE <<>>

\* Lines 723-731: the means of np.roll(allvalues, -b1)[:(b2 - b1) % nv], not
\* groupKramers; <<>> if there is no border
ClustersAngle(allvalues) ==
    LET nv == Len(allvalues)
        Abs(x) == IF x < 0 THEN -x ELSE x
        borders == Ascend({ i \in 0..(nv - 1) :
                     Abs(allvalues[i + 1] - allvalues[((i - 1) % nv) + 1]) > BorderGap })
        nb == Len(borders)
    IN [j \in 1..nb |->
          LET b1 == borders[j]
              b2 == borders[(j % nb) + 1]
          IN Mean([p \in 1..((b2 - b1) % nv) |-> allvalues[((p - 1 + b1) % nv) + 1]])]

SubspaceKpoints_wrong(v, kpseparated) ==
    LET Dist(x) == LET d == x * v.den - v.num IN IF d < 0 THEN -d ELSE d
        vk0(K) == K[CHOOSE i \in 1..Len(K) :
                      /\ \A j \in 1..Len(K) : Dist(K[i]) <= Dist(K[j])
                      /\ \A j \in 1..(i - 1) : Dist(K[j]) > Dist(K[i])]
    IN [i \in 1..Len(kpseparated) |-> << i, vk0(kpseparated[i]) >>]

\* Lines 707-716 and 735-745: other.kpoints for the eigenvalue v, each separated
\* Kpoint named by the position of its k-point in self.kpoints and its key
SubspaceKpoints(v, kpseparated) ==
    LET Dist(x) == LET d == x * v.den - v.num IN IF d < 0 THEN -d ELSE d
        vk0(K) == K[CHOOSE i \in 1..Len(K) :
                      /\ \A j \in 1..Len(K) : Dist(K[i]) <= Dist(K[j])
                      /\ \A j \in 1..(i - 1) : Dist(K[j]) > Dist(K[i])]
        kept == { k \in 1..Len(kpseparated) :
                    v.k = "num" /\ Dist(vk0(kpseparated[k])) < NearGap * v.den }
        order == Ascend(kept)
    IN [i \in 1..Len(order) |-> << order[i], vk0(kpseparated[order[i]]) >>]

\* Lines 678-747: Separate for an operation that is not the identity;
\* kpseparated[k] holds the keys of the dict Kpoint.Separate gave for k-point k
SeparateBySymop(groupKramers, kpseparated) ==
    LET values == Concat(kpseparated, Len(kpseparated))
        allvalues == Sorted(values, Len(values))
        means == IF groupKramers THEN ClustersKramers(allvalues)
                 ELSE ClustersAngle(allvalues)
    IN [subspaces |->
          IF means = <<>>
          THEN { [key |-> Mean(allvalues), bs |-> "self", kpoints |-> <<>>] }
          ELSE { [key |-> means[j], bs |-> "new",
                  kpoints |-> SubspaceKpoints(means[j], kpseparated)] :
                    j \in 1..Len(means) },
        separated |-> Len(kpseparated)]

Separate_wrong(isymop, groupKramers, kpseparated) ==
    SeparateBySymop(groupKramers, kpseparated)

\* Separate(isymop, degen_thresh, groupKramers), lines 675-747: the dict of the
\* subspaces, each the object self or a new BandStructure with its own list of
\* separated k-points, and the number of calls of Kpoint.Separate
Separate(isymop, groupKramers, kpseparated) ==
    IF isymop = 1
    THEN [subspaces |-> { [key |-> Frac(1, 1), bs |-> "self", kpoints |-> <<>>] },
          separated |-> 0]
    ELSE SeparateBySymop(groupKramers, kpseparated)

\* self.Separate(isymop, groupKramers=...) on the BandStructure that was built;
\* dft.eig holds, for each k-point of the files, the eigenvalues Kpoint.Separate
\* finds
call_Separate(isymop, groupKramers) ==
    /\ pc \in {"done", "identified"}
    /\ IsNone(ret)
    /\ call' = Some([fn |-> "Separate", isymop |-> isymop, groupKramers |-> groupKramers,
                     kpoints |-> kpoints])
    /\ ret' = Some(Separate(isymop, groupKramers,
                            [i \in 1..Len(kpoints) |-> dft.eig[kpoints[i].ik + 1]]))
    /\ UNCHANGED <<parserVars, bsVars, sortVars>>

\* open(name, "w"): the file is made, or emptied if it was there
OpenW(fs, name) == [fs EXCEPT ![name] = Some(<<>>)]

\* KPOINTSline, lines 927-934: one length per k-point; the product with
\* RecLattice raises ValueError when there is no k-point
KPOINTSline(kps) ==
    IF kps = <<>> THEN [exc |-> "ValueError", value |-> <<>>]
    ELSE [exc |-> "", value |-> [i \in 1..Len(kps) |-> i - 1]]

\* Lines 625-651 of write_trace: what is written to trace.txt
TraceLines(nbands, spinor, kps) ==
    << [line |-> "Nbands", n |-> nbands],
       [line |-> "SOC", n |-> IF spinor THEN 1 ELSE 0],
       [line |-> "spacegroup", n |-> 0],
       [line |-> "NK", n |-> Len(kps)] >>
    \o [i \in 1..Len(kps) |-> [line |-> "K", n |-> kps[i].ik]]
    \o [i \in 1..Len(kps) |-> [line |-> "traces", n |-> kps[i].ik]]

\* write_trace, lines 625-651: the directory after the call and the exception
WriteTrace(fs, kps, spinor) ==
    LET opened == OpenW(fs, "trace.txt")
        nb == getNbands(kps)
    IN IF nb.exc # "" THEN [exc |-> nb.exc, files |-> opened]
       ELSE [exc |-> "",
             files |-> [opened EXCEPT !["trace.txt"] =
                          Some(TraceLines(Val(nb.value), spinor, kps))]]

\* Lines 885-904 of write_trace_all: what is written to the file
TraceAllLines(nbands, spinor, kps) ==
    << [line |-> "# Nbands", n |-> nbands],
       [line |-> "# SOC", n |-> IF spinor THEN 1 ELSE 0],
       [line |-> "# spacegroup", n |-> 0] >>
    \o [i \in 1..Len(kps) |-> [line |-> "traces", n |-> kps[i].ik]]

\* write_trace_all, lines 882-904, with the default fname
WriteTraceAll(fs, kps, spinor) ==
    LET opened == OpenW(fs, "trace_all.dat")
        kpline == KPOINTSline(kps)
        nb == getNbands(kps)
    IN IF kpline.exc # "" THEN [exc |-> kpline.exc, files |-> opened]
       ELSE IF nb.exc # "" THEN [exc |-> nb.exc, files |-> opened]
       ELSE [exc |-> "",
             files |-> [opened EXCEPT !["trace_all.dat"] =
                          Some(TraceAllLines(Val(nb.value), spinor, kps))]]

\* self.write_trace() on the BandStructure that was built
write_trace ==
    /\ pc \in {"done", "identified"}
    /\ IsNone(ret)
    /\ LET r == WriteTrace(files, kpoints, Val(self.spinor)) IN
       /\ files' = r.files
       /\ ret' = Some([exc |-> r.exc])
    /\ call' = Some([fn |-> "write_trace", fname |-> "trace.txt", before |-> files])
    /\ UNCHANGED <<parserVars, sortVars>>
    /\ UNCHANGED <<kplist_obj, args, dft, pc, self, loc, exc, nparsed, kpoints, out>>

\* self.write_trace_all() on the BandStructure that was built
write_trace_all ==
    /\ pc \in {"done", "identified"}
    /\ IsNone(ret)
    /\ LET r == WriteTraceAll(files, kpoints, Val(self.spinor)) IN
       /\ files' = r.files
       /\ ret' = Some([exc |-> r.exc])
    /\ call' = Some([fn |-> "write_trace_all", fname |-> "trace_all.dat", before |-> files])
    /\ UNCHANGED <<parserVars, sortVars>>
    /\ UNCHANGED <<kplist_obj, args, dft, pc, self, loc, exc, nparsed, kpoints, out>>

\* write_bands(locs=None), lines 834-860: EN[b][i] is the energy printed for
\* band b at k-point i, +inf where the k-point has no such band.  The energies
\* of the model are whole numbers, which "{:8.4f}" prints as they are.
WriteBands(kps, efermi) ==
    LET kpline == KPOINTSline(kps) IN
    IF kpline.exc # "" THEN [exc |-> kpline.exc, EN |-> <<>>]
    ELSE LET nbmax == Max({ Len(kps[i].Energy) : i \in 1..Len(kps) }) IN
         [exc |-> "",
          EN |-> [b \in 1..nbmax |->
                    [i \in 1..Len(kps) |->
                       IF b <= Len(kps[i].Energy)
                       THEN Num(kps[i].Energy[b] - efermi)
                       ELSE Inf]]]

\* self.write_bands() on the BandStructure that was built
write_bands ==
    /\ pc \in {"done", "identified"}
    /\ IsNone(ret)
    /\ call' = Some([fn |-> "write_bands"])
    /\ ret' = Some(WriteBands(kpoints, Val(self.efermi)))
    /\ UNCHANGED <<parserVars, bsVars, sortVars>>

-----------------------------------------------------------------------------
(*                  Specifications of the BandStructure                    *)

OptInt(lo, hi) == {None} \cup { Some(v) : v \in lo..hi }

BaseArgs == [code |-> "vasp", spinor |-> Some(FALSE), Ecut |-> None, IBstart |-> None,
             IBend |-> None, EF |-> "0.0", onlysym |-> FALSE, spin_channel |-> None,
             kplist |-> None]

\* Files of a calculation with NK k-points of NBin bands each, of energies 1..NBin
PlainEnergies(NK, NBin) == [k \in 1..NK |-> [b \in 1..NBin |-> b]]

BaseDft == [NK |-> MaxNK, NBin |-> 1, NBin_list |-> <<1, 1>>, Ecut0 |-> 1,
            EF_in |-> None, spinor |-> FALSE, spinpol |-> FALSE,
            Energies |-> PlainEnergies(MaxNK, 1),
            inv |-> [k \in 1..MaxNK |-> None],
            eig |-> [k \in 1..MaxNK |-> <<0, 8>>]]

\* Every code and every way the header values are taken from its parser
DispatchArgs ==
    { [BaseArgs EXCEPT !.code = c, !.spinor = sp, !.spin_channel = sc, !.onlysym = os,
                       !.EF = ef, !.Ecut = ec, !.IBend = ie] :
        c \in {"vasp", "abinit", "espresso", "wannier90", "siesta"},
        sp \in {None, Some(TRUE), Some(FALSE)},
        sc \in {None, Some("up"), Some("DOWN")},
        os \in BOOLEAN,
        ef \in {"auto", "AUTO", "1.0", "abc"},
        ec \in {None, Some(1)},
        ie \in {None, Some(1)} }

DispatchDft ==
    { [BaseDft EXCEPT !.EF_in = ei, !.spinor = sp, !.spinpol = pol,
                      !.NBin_list = <<1, nb2>>] :
        ei \in {None, Some(1)}, sp \in BOOLEAN, pol \in BOOLEAN, nb2 \in 1..MaxBands }

\* Every band window and every cutoff
WindowArgs ==
    { [BaseArgs EXCEPT !.code = c, !.EF = ef, !.Ecut = ec, !.IBstart = ib, !.IBend = ie] :
        c \in {"vasp", "espresso", "wannier90"},
        ef \in {"0.0", "abc"},
        ec \in OptInt(-1, MaxEcut + 1),
        ib \in OptInt(-1, MaxBands + 1),
        ie \in OptInt(-1, MaxBands + 1) }

WindowDft ==
    { [BaseDft EXCEPT !.NBin = nb, !.NBin_list = <<nb, nb>>, !.Ecut0 = e0,
                      !.Energies = PlainEnergies(MaxNK, nb)] :
        nb \in 1..MaxBands, e0 \in 1..MaxEcut }

\* Every selection of k-points; the energy of a band tells its k-point
MaxKplist == 3
KplistArgs ==
    { [BaseArgs EXCEPT !.code = c, !.Ecut = Some(1), !.kplist = kl] :
        c \in {"vasp", "espresso", "wannier90"},
        kl \in {None} \cup
               { Some(l) : l \in UNION { [1..n -> -1..(MaxNK + 1)] : n \in 0..MaxKplist } } }

KplistDft == { [BaseDft EXCEPT !.Energies = [k \in 1..MaxNK |-> <<k>>]] }

\* The WFK files the constructor is called on
CtorWFKFiles ==
    { WFKFile(<<nb1, nb2>>, <<1, 1>>, ns) : nb1 \in 1..MaxBands, nb2 \in 1..MaxBands,
                                            ns \in {1, 2} }

NoFile == [nkpt |-> 0, nband |-> <<>>, npwarr |-> <<>>, nspinor |-> 1, recs |-> <<>>]

\* A call of the constructor: no parser yet, no attribute set
InitCtor ==
    /\ \/ args \in DispatchArgs /\ dft \in DispatchDft
       \/ args \in WindowArgs /\ dft \in WindowDft
       \/ args \in KplistArgs /\ dft \in KplistDft
    /\ IF Lower(args.code) = "abinit" THEN wfk \in CtorWFKFiles ELSE wfk = NoFile
    /\ fpos = 1 /\ attrs = {} /\ kpt_count = 0 /\ broken = FALSE /\ lastCall = NoCall
    /\ pc = "init" /\ self = NoSelf /\ loc = NoLoc /\ exc = "" /\ nparsed = 0
    /\ kpoints = <<>> /\ out = NoOut
    /\ kplist_obj = args.kplist /\ files = NoFiles
    /\ IdleUtil

NextCtor ==
    \/ Ctor_read
    \/ Ctor_spacegroup
    \/ Ctor_fermi
    \/ Ctor_window
    \/ Ctor_ecut
    \/ Ctor_kplist
    \/ Ctor_kpoint
    \/ Ctor_return

SpecCtor == InitCtor /\ [][NextCtor]_vars

NoBands == "RuntimeError: No bands to calculate"

\* C2: constructing a BandStructure with code='abinit' from a well-formed WFK
\* file completes without raising: every parser attribute the constructor
\* reads has been set before it is read (it raises only for an invalid EF or
\* an empty band window).
C2_AbinitConstructs ==
    (loc.code = "abinit" /\ pc = "raised")
        => /\ loc.missing = ""
           /\ exc \in {NoBands, "RuntimeError: Invalid value for keyword EF"}

\* C9: the band window is normalised (IBstart None or <= 0 is the first band,
\* otherwise the 1-based IBstart; IBend None, <= 0 or > NBin is NBin), 'No bands
\* to calculate' is raised exactly when the normalised IBend - IBstart <= 0,
\* before any k-point is parsed, and otherwise NBout = IBend - IBstart >= 1.
C9_Start ==
    IF IsNone(args.IBstart) THEN 0
    ELSE IF Val(args.IBstart) >= 1 THEN Val(args.IBstart) - 1 ELSE 0
C9_End ==
    IF ~IsNone(args.IBend) /\ Val(args.IBend) \in 1..Val(loc.NBin)
    THEN Val(args.IBend) ELSE Val(loc.NBin)
C9_BandWindow ==
    /\ exc = NoBands => ~IsNone(loc.NBout)
    /\ ~IsNone(loc.NBout) =>
          /\ loc.IBstart = Some(C9_Start)
          /\ loc.IBend = Some(C9_End)
          /\ (exc = NoBands) <=> (C9_End - C9_Start <= 0)
          /\ exc = NoBands => (pc = "raised" /\ nparsed = 0 /\ kpoints = <<>>)
          /\ exc # NoBands => (loc.NBout = Some(C9_End - C9_Start) /\ Val(loc.NBout) >= 1
                               /\ pc # "raised")
C9_Witness ==
    /\ exc = NoBands
    /\ ~IsNone(args.IBstart) /\ ~IsNone(args.IBend)
    /\ Val(args.IBend) \in 1..Val(loc.NBin)
    /\ Val(args.IBstart) > Val(args.IBend)

\* C10: the effective cutoff is Ecut0 if the input Ecut is not set, is negative
\* or zero, or is larger than Ecut0, and the input Ecut otherwise; hence
\* 0 < Ecut <= Ecut0 whenever Ecut0 > 0.
C10_EffectiveEcut ==
    ~IsNone(self.Ecut) =>
        LET Ecut0 == Val(self.Ecut0)
            Ecut == Val(self.Ecut)
        IN /\ (IsNone(args.Ecut) \/ Val(args.Ecut) <= 0 \/ Val(args.Ecut) > Ecut0)
                  => Ecut = Ecut0
           /\ ~(IsNone(args.Ecut) \/ Val(args.Ecut) <= 0 \/ Val(args.Ecut) > Ecut0)
                  => Ecut = Val(args.Ecut)
           /\ Ecut0 > 0 => (0 < Ecut /\ Ecut <= Ecut0)
C10_Witness ==
    /\ pc = "done"
    /\ ~IsNone(args.Ecut) /\ ~IsNone(self.Ecut)
    /\ Val(args.Ecut) > 0 /\ Val(args.Ecut) < Val(self.Ecut0)
    /\ self.Ecut = args.Ecut

\* C21: for code = 'espresso' the spin channel is validated before any k-point
\* is parsed: non-collinear and spin-polarised raises RuntimeError; spin-polarised
\* with no spin channel raises ValueError; non-polarised with a spin channel
\* raises ValueError; 'down' is accepted as 'dw' in any letter case; and the
\* channel 'up' / 'dw' gets the number of bands of that channel (nbnd_up, nbnd_dw).
C21_SpinChannel ==
    (Lower(args.code) = "espresso" /\ pc # "init") =>
        LET sc == args.spin_channel
            nbnd_up == dft.NBin_list[1]
            nbnd_dw == dft.NBin_list[2]
            isDown == ~IsNone(sc) /\ Val(sc) \in {"dw", "DW", "down", "DOWN", "Down"}
            isUp == ~IsNone(sc) /\ Val(sc) \in {"up", "UP", "Up"}
            early == pc = "raised" /\ nparsed = 0 /\ kpoints = <<>>
        IN /\ (dft.spinor /\ dft.spinpol) =>
                 (early /\ exc = "RuntimeError: both noncollinear and spin-polarised")
           /\ (~dft.spinor /\ dft.spinpol /\ IsNone(sc)) =>
                 (early /\ exc = "ValueError: need to select a spin channel")
           /\ (~dft.spinpol /\ ~IsNone(sc)) =>
                 (early /\ exc = "ValueError: non-polarized, but spin channel is set")
           /\ (~dft.spinor /\ dft.spinpol /\ isDown) =>
                 (loc.spin_channel = Some("dw") /\ loc.NBin = Some(nbnd_dw)
                  /\ exc \notin {"ValueError: need to select a spin channel",
                                 "AssertionError"})
           /\ (~dft.spinor /\ dft.spinpol /\ isUp) =>
                 (loc.spin_channel = Some("up") /\ loc.NBin = Some(nbnd_up)
                  /\ exc \notin {"ValueError: need to select a spin channel",
                                 "AssertionError"})
C21_Witness ==
    /\ Lower(args.code) = "espresso" /\ pc = "done"
    /\ args.spin_channel = Some("DOWN") /\ dft.spinpol
    /\ dft.NBin_list[1] # dft.NBin_list[2]
    /\ loc.NBin = Some(dft.NBin_list[2])

InvalidEF == "RuntimeError: Invalid value for keyword EF"
AutoSpellings == {"auto", "AUTO", "Auto", "aUtO"}
AfterFermi == {"window", "ecut", "kplist", "kpoints", "done"}

\* C11: with EF = 'auto' in any letter case the Fermi energy is the value parsed
\* from the files, or 0.0 with a warning when none was found, and the run goes
\* on; with a numeric string it is that number; any other string raises a
\* RuntimeError before any k-point is parsed.
C11_FermiEnergy ==
    /\ pc \in AfterFermi =>
          /\ args.EF \in AutoSpellings =>
                /\ ~IsNone(loc.EF_in) => (self.efermi = loc.EF_in /\ ~loc.warned)
                /\ IsNone(loc.EF_in) => (self.efermi = Some(0) /\ loc.warned)
          /\ args.EF \notin AutoSpellings =>
                (~IsNone(ParseFloat(args.EF)) /\ self.efermi = ParseFloat(args.EF))
    /\ exc = InvalidEF =>
          /\ pc = "raised" /\ nparsed = 0 /\ kpoints = <<>>
          /\ args.EF \notin AutoSpellings /\ IsNone(ParseFloat(args.EF))
    /\ (pc = "raised" /\ exc = NoBands) =>
          (args.EF \in AutoSpellings \/ ~IsNone(ParseFloat(args.EF)))
C11_Witness ==
    /\ pc = "done" /\ nparsed > 0
    /\ args.EF = "AUTO" /\ IsNone(loc.EF_in)
    /\ self.efermi = Some(0) /\ loc.warned

\* the entries of kplist that are 1-based indices of k-points of the files
Selected ==
    IF IsNone(args.kplist) THEN [i \in 1..Val(loc.NK) |-> i]
    ELSE SelectSeq(Val(args.kplist), LAMBDA k : k \in 1..Val(loc.NK))

\* C12: self.kpoints holds one Kpoint per selected k-point in input order: with
\* kplist given, the i-th entry is the k-point of the i-th 1-based index of
\* kplist that lies in 1..NK (others are dropped, order and repetitions
\* kept); with no kplist, all NK k-points in file order.
C12_KpointOrder ==
    pc = "done" =>
        /\ Len(kpoints) = Len(Selected)
        /\ \A i \in 1..Len(kpoints) :
              /\ kpoints[i].ik = Selected[i] - 1
              /\ kpoints[i].Energy =
                    [b \in 1..Len(kpoints[i].Energy) |->
                       dft.Energies[Selected[i]][Val(loc.IBstart) + b] - Val(self.efermi)]
C12_Witness ==
    /\ pc = "done"
    /\ args.kplist = Some(<<2, 3, 1>>)
    /\ Len(kpoints) = 2 /\ kpoints[1].ik = 1 /\ kpoints[2].ik = 0

-----------------------------------------------------------------------------
(*        The loop over the k-points and the reports of a BandStructure    *)

\* Band energies of the files, ascending with the band index
EnergyValues == {0, 1, 3}
EnergyArrays(n) ==
    { e \in [1..n -> EnergyValues] : \A i \in 1..n, j \in 1..n : i < j => e[i] <= e[j] }

\* every attribute the constructor reads from a ParserAbinit
Abinit_all_attrs == Abinit_init_attrs \cup Abinit_header_attrs \cup Range(AbinitReads)

\* Number of inversion-odd states at a k-point: None when the k-point is not
\* invariant under inversion; Kramers partners are paired in the spinor case.
InvCounts(spinor) ==
    {None} \cup { Some(n) : n \in { i \in 0..MaxInv : spinor => i % 2 = 0 } }

\* The constructor at the start of the loop over the k-points of a WFK file in
\* which the number of bands differs between the k-points; every k-point holds
\* the first band of the window.
InitGaps ==
    \E NK \in 1..MaxNK, ib \in 0..(MaxBands - 1), ie \in 1..MaxBands, ef \in {0, 1} :
      /\ ib < ie
      /\ dft \in { [BaseDft EXCEPT !.NK = NK, !.Energies = en,
                                   !.inv = [k \in 1..NK |-> None]] :
                     en \in [1..NK -> UNION { EnergyArrays(n) : n \in (ib + 1)..MaxBands }] }
      /\ ie <= Max({ Len(dft.Energies[k]) : k \in 1..NK })
      /\ wfk = WFKFile([k \in 1..NK |-> Len(dft.Energies[k])], [k \in 1..NK |-> 1], 1)
      /\ fpos = 2 /\ attrs = Abinit_all_attrs /\ kpt_count = 0 /\ broken = FALSE
      /\ lastCall = NoCall
      /\ args = [BaseArgs EXCEPT !.code = "abinit", !.spinor = None,
                                 !.IBstart = Some(ib + 1), !.IBend = Some(ie),
                                 !.EF = IF ef = 0 THEN "0.0" ELSE "1.0"]
      /\ self = [spinor |-> Some(FALSE), Ecut0 |-> Some(1), Ecut |-> Some(1),
                 efermi |-> Some(ef)]
      /\ loc = [NoLoc EXCEPT !.code = "abinit", !.NK = Some(NK),
                             !.NBin = Some(Max({ Len(dft.Energies[k]) : k \in 1..NK })),
                             !.IBstart = Some(ib), !.IBend = Some(ie),
                             !.NBout = Some(ie - ib),
                             !.kplist = Some([i \in 1..NK |-> i - 1])]
      /\ pc = "kpoints" /\ exc = "" /\ nparsed = 0 /\ kpoints = <<>> /\ out = NoOut /\ kplist_obj = MinusOne(args.kplist)

\* The constructor at the start of the loop over the k-points of a WAVECAR
\* with one band, for every number of inversion-odd states at the k-points.
InitInversions ==
    \E NK \in 1..MaxNK, sp \in BOOLEAN :
      /\ dft \in { [BaseDft EXCEPT !.NK = NK, !.Energies = PlainEnergies(NK, 1),
                                   !.spinor = sp, !.inv = iv] :
                     iv \in [1..NK -> InvCounts(sp)] }
      /\ wfk = NoFile
      /\ fpos = 1 /\ attrs = {} /\ kpt_count = 0 /\ broken = FALSE /\ lastCall = NoCall
      /\ args = [BaseArgs EXCEPT !.spinor = Some(sp)]
      /\ self = [spinor |-> Some(sp), Ecut0 |-> Some(1), Ecut |-> Some(1),
                 efermi |-> Some(0)]
      /\ loc = [NoLoc EXCEPT !.code = "vasp", !.NK = Some(NK), !.NBin = Some(1),
                             !.IBstart = Some(0), !.IBend = Some(1), !.NBout = Some(1),
                             !.kplist = Some([i \in 1..NK |-> i - 1])]
      /\ pc = "kpoints" /\ exc = "" /\ nparsed = 0 /\ kpoints = <<>> /\ out = NoOut /\ kplist_obj = MinusOne(args.kplist)

\* The constructor at the start of the loop over the k-points of a WAVECAR when
\* no index of kplist is the index of a k-point of the file.
InitNoKpoints ==
    /\ dft = BaseDft
    /\ wfk = NoFile
    /\ fpos = 1 /\ attrs = {} /\ kpt_count = 0 /\ broken = FALSE /\ lastCall = NoCall
    /\ args \in { [BaseArgs EXCEPT !.kplist = Some(l)] : l \in {<<0>>, <<MaxNK + 1>>, <<>>} }
    /\ self = [spinor |-> Some(FALSE), Ecut0 |-> Some(1), Ecut |-> Some(1),
               efermi |-> Some(0)]
    /\ loc = [NoLoc EXCEPT !.code = "vasp", !.NK = Some(MaxNK), !.NBin = Some(1),
                           !.IBstart = Some(0), !.IBend = Some(1), !.NBout = Some(1),
                           !.kplist = Some(KpList(args.kplist, MaxNK))]
    /\ pc = "kpoints" /\ exc = "" /\ nparsed = 0 /\ kpoints = <<>> /\ out = NoOut /\ kplist_obj = MinusOne(args.kplist)

\* trace.txt and trace_all.dat are absent, or hold what an earlier run wrote
TraceDirs == { NoFiles, [name \in DOMAIN NoFiles |-> Some(<< [line |-> "old", n |-> 0] >>)] }

InitReport == (InitGaps \/ InitInversions \/ InitNoKpoints) /\ IdleUtil /\ files \in TraceDirs

NextReport ==
    \/ Ctor_kpoint
    \/ Ctor_return
    \/ identify_irreps
    \/ write_characters2
    \/ json
    \/ call_getNbands
    \/ zakphase
    \/ wcc
    \/ \E isymop \in 1..MaxSym, groupKramers \in BOOLEAN :
          call_Separate(isymop, groupKramers)
    \/ write_trace
    \/ write_trace_all
    \/ write_bands

SpecReport == InitReport /\ [][NextReport]_vars

\* Eigenvalues of a symmetry operation at a k-point, in units of 0.01: the keys
\* of the dict that Kpoint.Separate gives
EigValues == {0, 1, 2, 8}
KeyLists ==
    { l \in UNION { [1..n -> EigValues] : n \in 1..2 } :
        \A i, j \in 1..Len(l) : l[i] = l[j] => i = j }

\* The constructor at the start of the loop over the k-points of a WAVECAR with
\* one band, for every set of eigenvalues of the operation at the k-points.
InitEigenvalues ==
    \E NK \in 1..MaxNK :
      /\ dft \in { [BaseDft EXCEPT !.NK = NK, !.Energies = PlainEnergies(NK, 1),
                                   !.eig = e] : e \in [1..NK -> KeyLists] }
      /\ wfk = NoFile
      /\ fpos = 1 /\ attrs = {} /\ kpt_count = 0 /\ broken = FALSE /\ lastCall = NoCall
      /\ args = BaseArgs
      /\ self = [spinor |-> Some(FALSE), Ecut0 |-> Some(1), Ecut |-> Some(1),
                 efermi |-> Some(0)]
      /\ loc = [NoLoc EXCEPT !.code = "vasp", !.NK = Some(NK), !.NBin = Some(1),
                             !.IBstart = Some(0), !.IBend = Some(1), !.NBout = Some(1),
                             !.kplist = Some([i \in 1..NK |-> i - 1])]
      /\ pc = "kpoints" /\ exc = "" /\ nparsed = 0 /\ kpoints = <<>> /\ out = NoOut /\ kplist_obj = MinusOne(args.kplist)

InitSeparate == InitEigenvalues /\ IdleUtil /\ files = NoFiles

NextSeparate ==
    \/ Ctor_kpoint
    \/ Ctor_return
    \/ \E isymop \in 1..MaxSym, groupKramers \in BOOLEAN :
          call_Separate(isymop, groupKramers)

SpecSeparate == InitSeparate /\ [][NextSeparate]_vars

Built == pc \in {"done", "identified"}

\* the k-points of the structure whose files hold the band above the window
KnownUpper == { i \in 1..Len(kpoints) : Val(loc.IBend) < Len(dft.Energies[kpoints[i].ik + 1]) }
\* the energy of the band above the window and of the top of the window at
\* k-point i, as the files give them (the Fermi energy cancels in a gap)
UpperOf(i) == dft.Energies[kpoints[i].ik + 1][Val(loc.IBend) + 1]
TopOf(i) ==
    LET E == dft.Energies[kpoints[i].ik + 1] IN
    IF Val(loc.IBend) < Len(E) THEN E[Val(loc.IBend)] ELSE E[Len(E)]
Min(S) == CHOOSE x \in S : \A y \in S : x <= y

\* C5: gap_direct is the minimum over the k-points whose next band above is
\* known of (upper - Energy[-1]); a k-point whose upper energy is unknown is
\* left out wherever it stands in the list, and the result is +infinity when
\* no k-point has a known upper energy.
C5_GapDirect ==
    Built =>
        gap_direct(kpoints) =
            IF KnownUpper = {} THEN Inf
            ELSE Num(Min({ UpperOf(i) - TopOf(i) : i \in KnownUpper }))
\* the last k-point of the list has no band above the window
C5_Witness ==
    /\ Built
    /\ Len(kpoints) >= 2
    /\ 1 \in KnownUpper /\ Len(kpoints) \notin KnownUpper
    /\ kpoints[Len(kpoints)].upper = NaN
    /\ gap_direct(kpoints) = Num(UpperOf(1) - TopOf(1))

\* C6: gap_indirect is (the minimum over the k-points of the known next band
\* above) minus (the maximum over all the k-points of the top of the window),
\* the unknown upper energies being left out wherever they stand.
C6_GapIndirect ==
    Built =>
        gap_indirect(kpoints) =
            IF KnownUpper = {} THEN Inf
            ELSE Num(Min({ UpperOf(i) : i \in KnownUpper })
                     - Max({ TopOf(i) : i \in 1..Len(kpoints) }))
\* the first k-point has no band above, and the highest top of the window
C6_Witness ==
    /\ Built
    /\ Len(kpoints) >= 2
    /\ 1 \notin KnownUpper /\ 2 \in KnownUpper
    /\ TopOf(1) > TopOf(2)
    /\ gap_indirect(kpoints) = Num(UpperOf(2) - TopOf(1))

Odd(n) == n % 2 = 1

\* C7: the reported Z2 is (total/2) mod 2 and the reported Z4 is (total/2) mod 4,
\* total being the sum of the inversion-odd counts of the k-points invariant
\* under inversion; Z2 is in {0,1} and Z4 in {0,1,2,3}; a total of 2 in the
\* spinor case is reported as one Kramers pair with Z2 = 1 and Z4 = 1.
C7_Total ==
    LET inv == { i \in 1..Len(kpoints) : ~IsNone(kpoints[i].num_bandinvs) }
        n[S \in SUBSET inv] ==
            IF S = {} THEN 0
            ELSE LET i == CHOOSE i \in S : TRUE
                 IN Val(kpoints[i].num_bandinvs) + n[S \ {i}]
    IN n[inv]
C7_Invariants ==
    ~IsNone(out.text) =>
        LET rep == Val(out.text) IN
        /\ rep.total = C7_Total
        /\ 2 * Val(rep.Z2) = rep.total % 4          \* Z2 = (total/2) mod 2
        /\ 2 * Val(rep.Z4) = rep.total % 8          \* Z4 = (total/2) mod 4
        /\ Val(rep.Z2) \in {0, 1}
        /\ Val(rep.Z4) \in {0, 1, 2, 3}
        /\ (Val(self.spinor) /\ rep.total = 2)
              => (rep.pairs = Some(1) /\ rep.Z2 = Some(1) /\ rep.Z4 = Some(1))

\* C8: an odd band-inversion total is a fatal inconsistency: neither the text
\* report nor the JSON report gives a number of Kramers pairs, a Z2 or a Z4
\* computed from an odd total.
C8_OddTotalFatal ==
    /\ (~IsNone(out.text) /\ Odd(Val(out.text).total))
          => (IsNone(Val(out.text).pairs) /\ IsNone(Val(out.text).Z2)
              /\ IsNone(Val(out.text).Z4))
    /\ (~IsNone(out.json) /\ Odd(Val(out.json).total))
          => (IsNone(Val(out.json).pairs) /\ IsNone(Val(out.json).Z2)
              /\ IsNone(Val(out.json).Z4))

\* C17: getNbands returns the number of bands when it is the same at every
\* k-point, and raises a RuntimeError when the numbers of bands differ between
\* k-points or when there are no k-points at all.
C17_GetNbands ==
    (Built /\ ~IsNone(ret) /\ Val(call).fn = "getNbands") =>
        LET r == Val(ret)
            counts == { Len(kpoints[i].Energy) : i \in 1..Len(kpoints) }
        IN /\ (\E n \in counts : counts = {n}) =>
                 (r.exc = "" /\ r.value = Some(CHOOSE n \in counts : TRUE))
           /\ Cardinality(counts) > 1 =>
                 (r.exc = "RuntimeError: the numbers of bands differs over k-points"
                  /\ IsNone(r.value))
           /\ kpoints = <<>> =>
                 (r.exc = "RuntimeError: do we have any k-points???" /\ IsNone(r.value))
C17_Witness ==
    /\ Built /\ ~IsNone(ret) /\ Val(call).fn = "getNbands"
    /\ Len(kpoints) = 2 /\ Len(kpoints[1].Energy) # Len(kpoints[2].Energy)
    /\ Val(ret).exc = "RuntimeError: the numbers of bands differs over k-points"

\* C19: zakphase and wcc compute exactly one overlap per k-point of the path,
\* pairing k-point i with k-point i+1 in path order and the last with the
\* first, so that the product of the overlaps runs once around a closed loop
\* (for a single k-point, its overlap with itself).
C19_ClosedLoop ==
    (Built /\ ~IsNone(ret) /\ Val(call).fn \in {"zakphase", "wcc"} /\ kpoints # <<>>) =>
        LET N == Len(kpoints)
            o == Val(ret).overlaps
        IN /\ Val(ret).exc = ""
           /\ Len(o) = N
           /\ \A i \in 1..N : o[i][1] = i
           /\ \A i \in 1..(N - 1) : o[i][2] = i + 1
           /\ o[N][2] = 1
C19_Witness ==
    /\ Built /\ ~IsNone(ret) /\ Val(call).fn = "wcc"
    /\ Len(kpoints) = MaxNK
    /\ Val(ret).overlaps[MaxNK] = <<MaxNK, 1>>

\* C20: Separate called with the identity operation (isymop = 1) returns
\* exactly one subspace, keyed by eigenvalue 1, which is the whole original
\* band structure, without separating any k-point.
C20_SeparateIdentity ==
    (Built /\ ~IsNone(ret) /\ Val(call).fn = "Separate" /\ Val(call).isymop = 1) =>
        /\ Val(ret).subspaces = { [key |-> Frac(1, 1), bs |-> "self", kpoints |-> <<>>] }
        /\ Val(ret).separated = 0
C20_Witness ==
    /\ Built /\ ~IsNone(ret) /\ Val(call).fn = "Separate" /\ Val(call).isymop = 1
    /\ Len(kpoints) = MaxNK
    /\ Cardinality(Val(ret).subspaces) = 1

\* the eigenvalues of all k-points of self.kpoints, in ascending order
AllValues ==
    LET v == Concat([i \in 1..Len(kpoints) |-> dft.eig[kpoints[i].ik + 1]], Len(kpoints))
    IN Sorted(v, Len(v))
\* positions (0-based) whose value is farther than 0.01 from the value before
\* it, the first value following the last
CyclicBorders ==
    LET a == AllValues
        nv == Len(a)
    IN { i \in 0..(nv - 1) :
           LET d == a[i + 1] - a[((i - 1) % nv) + 1] IN d > BorderGap \/ -d > BorderGap }
\* the values from border b up to the next border, around the cycle
ClusterFrom(b) ==
    LET a == AllValues
        nv == Len(a)
        len == CHOOSE n \in 1..nv :
                 /\ ((b + n) % nv) \in CyclicBorders
                 /\ \A m \in 1..(n - 1) : ((b + m) % nv) \notin CyclicBorders
    IN [p \in 1..len |-> a[((b + p - 1) % nv) + 1]]

\* C22: in Separate with groupKramers = False, whenever at least one cluster
\* boundary exists, the eigenvalues of all k-points are split into non-empty
\* clusters that together contain each eigenvalue exactly once, and every key
\* of the returned dictionary is the mean of one such cluster, never NaN,
\* also when there is exactly one boundary.
C22_ClusterKeys ==
    (Built /\ ~IsNone(ret) /\ Val(call).fn = "Separate" /\ Val(call).isymop # 1
       /\ ~Val(call).groupKramers /\ CyclicBorders # {}) =>
        LET keys == { sub.key : sub \in Val(ret).subspaces } IN
        /\ \A key \in keys : key.k = "num"
        /\ keys = { Mean(ClusterFrom(b)) : b \in CyclicBorders }

\* the keys of the dicts Kpoint.Separate gave, one list per k-point of self.kpoints
KpSeparated == [i \in 1..Len(kpoints) |-> dft.eig[kpoints[i].ik + 1]]

\* The k-points of the subspace sub are separated Kpoints of distinct k-points
\* of self.kpoints, in the order of self.kpoints, each the one of its k-point
\* whose eigenvalue is nearest to the key of sub, and nearer than 0.05.
NearestKept(sub) ==
    LET v == sub.key
        kp == sub.kpoints
        Dist(x) == LET d == x * v.den - v.num IN IF d < 0 THEN -d ELSE d
    IN /\ \A i \in 1..Len(kp) :
            /\ kp[i][1] \in 1..Len(KpSeparated)
            /\ kp[i][2] \in Range(KpSeparated[kp[i][1]])
            /\ v.k = "num"
            /\ \A x \in Range(KpSeparated[kp[i][1]]) : Dist(kp[i][2]) <= Dist(x)
            /\ Dist(kp[i][2]) < NearGap * v.den
       /\ \A i, j \in 1..Len(kp) : i < j => kp[i][1] < kp[j][1]

SeparateReturned == Built /\ ~IsNone(ret) /\ Val(call).fn = "Separate"

C25_TargetCutoff ==
    \A i \in 1..Len(kpoints) : kpoints[i].ig.Ecut = self.Ecut

\* C26: when the constructor has returned or raised, the array the caller
\* passed as kplist holds the indices the caller put in it.
C26_KplistUnchanged ==
    pc \in {"done", "raised", "returned"} => kplist_obj = args.kplist

\* C28: when write_trace or write_trace_all raises, the file it writes is as it
\* was before the call: absent if it was absent, with its old lines otherwise.
C28_FileUntouched ==
    (/\ Built /\ ~IsNone(ret)
     /\ Val(call).fn \in {"write_trace", "write_trace_all"}
     /\ Val(ret).exc # "")
        => files[Val(call).fname] = Val(call).before[Val(call).fname]

\* C29: the energy write_bands prints for band b at k-point i is the energy the
\* Kpoint stores: the energy of the files minus the Fermi energy.
C29_FermiOnce ==
    (Built /\ ~IsNone(ret) /\ Val(call).fn = "write_bands" /\ Val(ret).exc = "") =>
        \A i \in 1..Len(kpoints) : \A b \in 1..Len(kpoints[i].Energy) :
            /\ Val(ret).EN[b][i] = Num(kpoints[i].Energy[b])
            /\ Val(ret).EN[b][i] =
                  Num(dft.Energies[kpoints[i].ik + 1][Val(loc.IBstart) + b]
                      - Val(self.efermi))

-----------------------------------------------------------------------------
(*                  utility.py: sort_vectors, arg_sort_vectors             *)

\* Bounds of the inputs of sort_vectors
MaxVectors == 3     \* vectors in the list
MaxVecLen == 2      \* elements of a vector

\* Complex numbers <<re, im>> on the axes of the plane
ComplexValues == { <<1, 0>>, <<-1, 0>>, <<0, 1>>, <<0, -1>>, <<2, 0>> }

AbsInt(n) == IF n < 0 THEN -n ELSE n

\* np.angle(x) / (2*np.pi), in eighths of a turn: in (-4, 4]
Angle8(x) ==
    CASE x[2] = 0 /\ x[1] >= 0 -> 0
      [] x[2] = 0 /\ x[1] < 0  -> 4
      [] x[1] = 0 /\ x[2] > 0  -> 2
      [] x[1] = 0 /\ x[2] < 0  -> -2
      [] OTHER                 -> 0

\* keys(x) == [(np.angle(x)/(2*np.pi)+0.0)%1, abs(x)]; every number of a sort
\* key is held in eighths, so that lengths, angles and magnitudes compare as
\* the floats do
keys(x) == << (Angle8(x) + 0) % 8, 8 * (AbsInt(x[1]) + AbsInt(x[2])) >>

RECURSIVE Flatten(_, _)
\* the keys of the elements v[1..n] of a vector, one after the other
Flatten(v, n) == IF n = 0 THEN <<>> ELSE Flatten(v, n - 1) \o keys(v[n])

\* serialize(x) == [len(a)] + a
serialize(v) == LET a == Flatten(v, Len(v)) IN << 8 * Len(a) >> \o a

\* np.lexsort(keys) for a two-dimensional array: the rows are the sort keys, the
\* last row the primary one; the columns are sorted, stably, and their indices
\* (0-based) are returned.
lexsort(rows, ncol) ==
    LET nrow == Len(rows)
        Before(i, j) ==
            \/ \E r \in 1..nrow :
                  /\ rows[r][i] < rows[r][j]
                  /\ \A q \in (r + 1)..nrow : rows[q][i] = rows[q][j]
            \/ (\A r \in 1..nrow : rows[r][i] = rows[r][j]) /\ i < j
        rank(i) == Cardinality({ j \in 1..ncol : Before(j, i) })
    IN [p \in 1..ncol |-> (CHOOSE i \in 1..ncol : rank(i) = p - 1) - 1]

\* arg_sort_vectors(list_of_vectors), lines 315-324
arg_sort_vectors(l) ==
    LET sort_key0 == [i \in 1..Len(l) |-> serialize(l[i])]
        lenmax == Max({ Len(sort_key0[i]) : i \in 1..Len(l) })
        sort_key == [i \in 1..Len(l) |->
                       sort_key0[i] \o [j \in 1..(lenmax - Len(sort_key0[i])) |-> 0]]
    IN lexsort(sort_key, lenmax)

\* sort_vectors(list_of_vectors), lines 298-301: the list, or IndexError
sort_vectors(l) ==
    LET srt == arg_sort_vectors(l) IN
    IF \E p \in 1..Len(srt) : srt[p] >= Len(l)
    THEN [exc |-> "IndexError", srt |-> srt, list |-> <<>>]
    ELSE [exc |-> "", srt |-> srt, list |-> [p \in 1..Len(srt) |-> l[srt[p] + 1]]]

Vectors == UNION { [1..n -> ComplexValues] : n \in 0..MaxVecLen }

InitSort ==
    /\ list_of_vectors \in UNION { [1..n -> Vectors] : n \in 1..MaxVectors }
    /\ sortOut = None
    /\ wfk = NoFile /\ fpos = 1 /\ attrs = {} /\ kpt_count = 0 /\ broken = FALSE
    /\ lastCall = NoCall
    /\ IdleBS
    /\ call = None /\ ret = None

call_sort_vectors ==
    /\ IsNone(sortOut)
    /\ sortOut' = Some(sort_vectors(list_of_vectors))
    /\ UNCHANGED <<list_of_vectors, parserVars, bsVars, call, ret>>

NextSort == call_sort_vectors

SpecSort == InitSort /\ [][NextSort]_vars

\* The order of the docstring: the longer vector is larger; then element by
\* element the angle, normalised to [0, 1), then the magnitude.
KeyOf(v) == << Len(v) >> \o Flatten(v, Len(v))
KeyLess(a, b) ==
    LET ka == KeyOf(a)
        kb == KeyOf(b)
    IN \/ ka[1] < kb[1]
       \/ /\ ka[1] = kb[1]
          /\ \E i \in 2..Len(ka) : ka[i] < kb[i] /\ \A j \in 2..(i - 1) : ka[j] = kb[j]
Ascending(l) == \A i \in 1..(Len(l) - 1) : ~KeyLess(l[i + 1], l[i])
IsPermutation(srt, n) ==
    Len(srt) = n /\ { srt[p] : p \in 1..Len(srt) } = 0..(n - 1)
Reorderings(l) ==
    { [i \in 1..Len(l) |-> l[f[i]]] :
        f \in { g \in [1..Len(l) -> 1..Len(l)] : \A i, j \in 1..Len(l) : g[i] = g[j] => i = j } }
DistinctKeys(l) == \A i, j \in 1..Len(l) : i # j => KeyOf(l[i]) # KeyOf(l[j])

\* C3: sort_vectors returns its input vectors in ascending order of the key
\* (length, then per element angle and magnitude); the one-element vectors
\* [1+0j], [-1+0j], [0+1j] come back as 1+0j, 0+1j, -1+0j.
C3_SortedByKey ==
    ~IsNone(sortOut) =>
        LET r == Val(sortOut) IN
        /\ r.exc = ""
        /\ r.list \in Reorderings(list_of_vectors)
        /\ Ascending(r.list)
        /\ list_of_vectors = << <<<<1, 0>>>>, <<<<-1, 0>>>>, <<<<0, 1>>>> >>
              => r.list = << <<<<1, 0>>>>, <<<<0, 1>>>>, <<<<-1, 0>>>> >>

\* C4: for every non-empty list of N vectors arg_sort_vectors returns a
\* permutation of 0..N-1; sort_vectors gives the same sequence for every
\* reordering of a list whose keys are pairwise distinct; and sorting a sorted
\* list leaves it unchanged.
C4_TotalOrder ==
    ~IsNone(sortOut) =>
        LET r == Val(sortOut) IN
        /\ IsPermutation(r.srt, Len(list_of_vectors))
        /\ DistinctKeys(list_of_vectors)
              => \A m \in Reorderings(list_of_vectors) : sort_vectors(m) = r
        /\ r.exc = "" => sort_vectors(r.list).list = r.list

-----------------------------------------------------------------------------
(*                  utility.py: orthogonolize, log_message                 *)

\* the parser and the BandStructure are not used
IdleParser ==
    /\ wfk = NoFile /\ fpos = 1 /\ attrs = {} /\ kpt_count = 0 /\ broken = FALSE
    /\ lastCall = NoCall

\* Bounds of the inputs of orthogonolize
MaxDim == 2         \* singular values of the matrix
MaxDev == 3         \* the largest |s - 1| and the largest finite threshold
MaxVerbosity == 2

\* log_message(msg, verbosity, level): whether msg is printed
log_message(verbosity, level) == verbosity >= level

\* orthogonolize(A, warning_threshold, error_threshold, verbosity); the matrix
\* is given by dev, the values np.abs(s - 1) of its singular values s
orthogonolize(dev, warning_threshold, error_threshold, verbosity) ==
    IF \E i \in 1..Len(dev) : FLt(error_threshold, Num(dev[i]))
    THEN [exc |-> "ValueError", printed |-> FALSE, returned |-> FALSE]
    ELSE IF \E i \in 1..Len(dev) : FLt(warning_threshold, Num(dev[i]))
    THEN [exc |-> "", printed |-> log_message(verbosity, 1), returned |-> TRUE]
    ELSE [exc |-> "", printed |-> FALSE, returned |-> TRUE]

Thresholds == { Num(t) : t \in 0..(MaxDev - 1) } \cup {Inf}

InitOrtho ==
    /\ call \in { Some([fn |-> "orthogonolize", dev |-> d, warning_threshold |-> w,
                        error_threshold |-> e, verbosity |-> v]) :
                    d \in UNION { [1..n -> 0..MaxDev] : n \in 1..MaxDim },
                    w \in Thresholds, e \in Thresholds, v \in 0..MaxVerbosity }
    /\ ret = None
    /\ IdleParser /\ IdleBS /\ IdleSort

call_orthogonolize ==
    /\ ~IsNone(call) /\ Val(call).fn = "orthogonolize" /\ IsNone(ret)
    /\ LET c == Val(call) IN
       ret' = Some(orthogonolize(c.dev, c.warning_threshold, c.error_threshold,
                                 c.verbosity))
    /\ UNCHANGED <<parserVars, bsVars, sortVars, call>>

NextOrtho == call_orthogonolize

SpecOrtho == InitOrtho /\ [][NextOrtho]_vars

\* some singular value differs from 1 by more than the threshold
Beyond(dev, threshold) ==
    \E i \in 1..Len(dev) :
        \/ threshold.k = "num" /\ dev[i] > threshold.v
        \/ threshold.k = "ninf"

\* C13: orthogonolize reports every unitarity violation: ValueError when a
\* singular value differs from 1 by more than error_threshold; otherwise the
\* warning when one differs by more than warning_threshold (and verbosity >= 1);
\* only a matrix within both thresholds is accepted silently; the error takes
\* precedence over the warning.
C13_ViolationsReported ==
    (~IsNone(ret) /\ Val(call).fn = "orthogonolize") =>
        LET c == Val(call)
            r == Val(ret)
        IN /\ (r.exc = "ValueError") <=> Beyond(c.dev, c.error_threshold)
           /\ r.exc = "ValueError" => (~r.printed /\ ~r.returned)
           /\ r.exc = "" =>
                 (r.printed <=> (Beyond(c.dev, c.warning_threshold) /\ c.verbosity >= 1))
           /\ (r.exc = "" /\ ~r.printed) =>
                 (~Beyond(c.dev, c.warning_threshold) /\ ~Beyond(c.dev, c.error_threshold))

-----------------------------------------------------------------------------
(*                  readfiles.py: WAVECARFILE                              *)

SinglePrecisionTag == 45200     \* the value of iprec that is supported
FirstRecordLength == 3          \* self.rl until the first record is read

\* Bounds of the reads of a WAVECAR
MaxRec == 3         \* largest index of a record that is read
MaxReads == 2       \* reads after the file is opened

\* record(irec, cnt): the seek position and the count given to np.fromfile
record(rl, irec, cnt) ==
    [irec |-> irec, pos |-> irec * rl,
     count |-> IF cnt.k = "num" /\ cnt.v < rl THEN cnt.v ELSE rl]

WAVECARFILE_init_wrong(first) ==
    LET r0 == record(FirstRecordLength, 0, Inf)
        rl == first[1]
        ispin == first[2]
        iprec == first[3]
    IN IF iprec # SinglePrecisionTag
       THEN [exc |-> "RuntimeError: double precision WAVECAR is not supported",
             made |-> FALSE, rl |-> rl, reads |-> <<r0>>]
       ELSE [exc |-> "", made |-> TRUE, rl |-> rl, reads |-> <<r0>>]

\* WAVECARFILE.__init__ on a file whose first record is first = <<rl, ispin,
\* iprec>>, whole numbers as VASP writes them.  made: the object exists.
WAVECARFILE_init(first) ==
    LET r0 == record(FirstRecordLength, 0, Inf)
        rl == first[1]
        ispin == first[2]
        iprec == first[3]
    IN IF iprec # SinglePrecisionTag
       THEN [exc |-> "RuntimeError: double precision WAVECAR is not supported",
             made |-> FALSE, rl |-> rl, reads |-> <<r0>>]
       ELSE IF ispin # 1
       THEN [exc |-> "RuntimeError: ISPIN is not supported", made |-> FALSE,
             rl |-> rl, reads |-> <<r0>>]
       ELSE [exc |-> "", made |-> TRUE, rl |-> rl, reads |-> <<r0>>]

FirstRecords ==
    { <<rl, ispin, iprec>> : rl \in {FirstRecordLength, 4, 8}, ispin \in 1..2,
                             iprec \in {SinglePrecisionTag, SinglePrecisionTag + 10} }

InitWavecar ==
    /\ call \in { Some([fn |-> "WAVECARFILE", first |-> f]) : f \in FirstRecords }
    /\ ret = None
    /\ IdleParser /\ IdleBS /\ IdleSort

\* fWAV = WAVECARFILE(filename)
WAVECARFILE_open ==
    /\ ~IsNone(call) /\ Val(call).fn = "WAVECARFILE" /\ IsNone(ret)
    /\ ret' = Some(WAVECARFILE_init(Val(call).first))
    /\ UNCHANGED <<parserVars, bsVars, sortVars, call>>

\* fWAV.record(irec, cnt), of the header or of a k-point
WAVECARFILE_record(irec, cnt) ==
    /\ ~IsNone(call) /\ Val(call).fn = "WAVECARFILE" /\ ~IsNone(ret)
    /\ Val(ret).made
    /\ Len(Val(ret).reads) <= MaxReads
    /\ ret' = Some([Val(ret) EXCEPT !.reads = Append(@, record(Val(ret).rl, irec, cnt))])
    /\ UNCHANGED <<parserVars, bsVars, sortVars, call>>

NextWavecar ==
    \/ WAVECARFILE_open
    \/ \E irec \in 1..MaxRec, cnt \in {Inf, Num(1), Num(5)} : WAVECARFILE_record(irec, cnt)

SpecWavecar == InitWavecar /\ [][NextWavecar]_vars

-----------------------------------------------------------------------------
(*                  Kpoint: the degenerate groups of bands                 *)

\* Bounds of the energies of a k-point
MaxNband == 3       \* bands of a k-point
MaxEnergy == 3      \* largest energy

RECURSIVE DegenerateGroups_wrong(_, _, _)
DegenerateGroups_wrong(Energy, degen_thresh, n) ==
    IF n = 0 THEN <<>>
    ELSE IF n = 1 THEN << {0} >>
    ELSE LET g == DegenerateGroups_wrong(Energy, degen_thresh, n - 1) IN
         IF Energy[n] - Energy[n - 1] <= degen_thresh
         THEN [g EXCEPT ![Len(g)] = @ \cup {n - 1}]
         ELSE Append(g, {n - 1})

RECURSIVE DegenerateGroups(_, _, _)
\* The single pass over the first n bands (0-based indices): the current group
\* is extended while Energy[i+1] - Energy[i] < degen_thresh, otherwise it is
\* closed and a new one started.
DegenerateGroups(Energy, degen_thresh, n) ==
    IF n = 0 THEN <<>>
    ELSE IF n = 1 THEN << {0} >>
    ELSE LET g == DegenerateGroups(Energy, degen_thresh, n - 1) IN
         IF Energy[n] - Energy[n - 1] < degen_thresh
         THEN [g EXCEPT ![Len(g)] = @ \cup {n - 1}]
         ELSE Append(g, {n - 1})

\* energies [0.0, 0.0001, 0.5, 0.50005, 2.0] and degen_thresh 1e-3, in units of 1e-5
ExampleEnergy == <<0, 10, 50000, 50005, 200000>>
ExampleThresh == 100

InitDegen ==
    /\ call \in { Some([fn |-> "Kpoint", Energy |-> E, degen_thresh |-> t]) :
                    E \in UNION { [1..n -> 0..MaxEnergy] : n \in 0..MaxNband },
                    t \in 1..MaxEnergy }
               \cup { Some([fn |-> "Kpoint", Energy |-> ExampleEnergy,
                            degen_thresh |-> ExampleThresh]) }
    /\ ret = None
    /\ IdleParser /\ IdleBS /\ IdleSort

call_Kpoint ==
    /\ ~IsNone(call) /\ Val(call).fn = "Kpoint" /\ IsNone(ret)
    /\ LET c == Val(call) IN
       ret' = Some(DegenerateGroups(c.Energy, c.degen_thresh, Len(c.Energy)))
    /\ UNCHANGED <<parserVars, bsVars, sortVars, call>>

NextDegen == call_Kpoint

SpecDegen == InitDegen /\ [][NextDegen]_vars

\* C15: the bands of a k-point are partitioned into contiguous groups that cover
\* every band exactly once; neighbouring bands i and i+1 are in the same group
\* iff Energy[i+1] - Energy[i] < degen_thresh; energies [0.0, 0.0001, 0.5,
\* 0.50005, 2.0] with degen_thresh = 1e-3 give [{0,1},{2,3},{4}].
C15_Partition ==
    (~IsNone(ret) /\ Val(call).fn = "Kpoint") =>
        LET E == Val(call).Energy
            t == Val(call).degen_thresh
            g == Val(ret)
            GroupOf(b) == { j \in 1..Len(g) : b \in g[j] }
        IN /\ \A b \in 0..(Len(E) - 1) : Cardinality(GroupOf(b)) = 1
           /\ \A j \in 1..Len(g) :
                 /\ g[j] # {} /\ g[j] \subseteq 0..(Len(E) - 1)
                 /\ \A a, c \in g[j] : \A b \in a..c : b \in g[j]
           /\ \A j \in 1..(Len(g) - 1) : \A a \in g[j], b \in g[j + 1] : a < b
           /\ \A i \in 0..(Len(E) - 2) :
                 (GroupOf(i) = GroupOf(i + 1)) <=> (E[i + 2] - E[i + 1] < t)
           /\ (E = ExampleEnergy /\ t = ExampleThresh) => g = << {0, 1}, {2, 3}, {4} >>
C15_Witness ==
    /\ ~IsNone(ret) /\ Val(call).fn = "Kpoint"
    /\ Val(call).Energy = ExampleEnergy /\ Val(call).degen_thresh = ExampleThresh
    /\ Len(Val(ret)) = 3

-----------------------------------------------------------------------------
(*        The VASP path: the coefficients handed to a Kpoint               *)

\* Bound of the coefficients stored for a band of a k-point
MaxCoefs == 4

\* ParserVasp.parse_kpoint: the check of npw, and the rows of WF, each holding
\* the npw stored coefficients; a coefficient is named by its column in the file.
Vasp_parse_kpoint(npw, spinor) ==
    IF spinor /\ npw % 2 # 0
    THEN [exc |-> "RuntimeError: odd number of coefs for spinor wavefunctions",
          row |-> <<>>]
    ELSE [exc |-> "", row |-> [j \in 1..npw |-> j - 1]]

SelectG_wrong(kg3, npw, spinor) ==
    IF ~spinor THEN kg3 ELSE kg3 \o kg3

\* Lines 290-294: selectG, from the indices kg[3] that calc_gvectors selected
SelectG(kg3, npw, spinor) ==
    IF ~spinor THEN kg3
    ELSE kg3 \o [p \in 1..Len(kg3) |-> kg3[p] + (npw \div 2)]

\* Lines 283-295: WF[:, selectG], a row of it
VaspWF(npw, spinor, kg3) ==
    LET r == Vasp_parse_kpoint(npw, spinor) IN
    IF r.exc # "" THEN [exc |-> r.exc, WF |-> <<>>]
    ELSE LET selectG == SelectG(kg3, npw, spinor) IN
         [exc |-> "", WF |-> [p \in 1..Len(selectG) |-> r.row[selectG[p] + 1]]]

\* The indices calc_gvectors can select among the nG vectors of the file
Selections(nG) ==
    { l \in UNION { [1..n -> 0..(nG - 1)] : n \in 0..nG } :
        \A i, j \in 1..Len(l) : l[i] = l[j] => i = j }

InitVaspWF ==
    /\ call \in { Some([fn |-> "VaspWF", npw |-> n, spinor |-> sp, kg3 |-> l]) :
                    n \in 0..MaxCoefs, sp \in BOOLEAN,
                    l \in Selections(MaxCoefs) }
    /\ LET c == Val(call) IN
       c.kg3 \in Selections(IF c.spinor THEN c.npw \div 2 ELSE c.npw)
    /\ ret = None
    /\ IdleParser /\ IdleBS /\ IdleSort

call_VaspWF ==
    /\ ~IsNone(call) /\ Val(call).fn = "VaspWF" /\ IsNone(ret)
    /\ LET c == Val(call) IN ret' = Some(VaspWF(c.npw, c.spinor, c.kg3))
    /\ UNCHANGED <<parserVars, bsVars, sortVars, call>>

NextVaspWF == call_VaspWF

SpecVaspWF == InitVaspWF /\ [][NextVaspWF]_vars

\* C16: on the VASP path the coefficient matrix handed to a Kpoint has
\* |selected G-vectors| x (2 if spinor else 1) columns; for spinors the mask is
\* applied twice, the second time offset by npw/2, so both spinor halves keep
\* the same G-vectors in the same order; a spinor k-point with an odd number
\* of stored coefficients raises a RuntimeError.
C16_VaspColumns ==
    (~IsNone(ret) /\ Val(call).fn = "VaspWF") =>
        LET c == Val(call)
            r == Val(ret)
            n == Len(c.kg3)
        IN /\ (r.exc # "") <=> (c.spinor /\ c.npw % 2 = 1)
           /\ r.exc = "" =>
                 /\ Len(r.WF) = n * (IF c.spinor THEN 2 ELSE 1)
                 /\ \A p \in 1..n : r.WF[p] = c.kg3[p]
                 /\ c.spinor => \A p \in 1..n : 2 * (r.WF[n + p] - r.WF[p]) = c.npw
C16_Witness ==
    /\ ~IsNone(ret) /\ Val(call).fn = "VaspWF"
    /\ Val(call).spinor /\ Val(call).npw = 4 /\ Val(call).kg3 = <<1, 0>>
    /\ Val(ret).WF = <<1, 0, 3, 2>>

-----------------------------------------------------------------------------
(*                  readfiles.py: ParserW90, the .win file                 *)

\* Bound of the numbers written in a .win file
MaxGrid == 2

\* A line of the .win file: a key, the separator written after it ("=", ":" or
\* " ") and the words of the value.  A string is held as the sequence of its
\* words.
WinLine(key, sep, words) == [key |-> key, sep |-> sep, words |-> words]

\* split(l) of utility.py and the strip of its parts (ParserW90.__init__): the
\* first field, and the other fields
split(l) ==
    IF l.sep = "=" THEN [ind |-> l.key, rest |-> << l.words >>]
    ELSE IF l.sep = ":" THEN [ind |-> l.key, rest |-> << l.words >>]
    ELSE [ind |-> l.key, rest |-> [i \in 1..Len(l.words) |-> << l.words[i] >>]]

\* ParserW90.__init__: self.fwin
W90_init(win) == [n \in 1..Len(win) |-> split(win[n])]

\* get_param(key, tp, default, join) before tp is applied: the exception raised,
\* or the string x (None when the default, None, is returned)
get_param(fwin, key, default, join) ==
    LET i == { n \in 1..Len(fwin) : fwin[n].ind = key }
        n1 == CHOOSE n \in i : TRUE
        x == fwin[n1].rest
        Raise(e) == [exc |-> e, x |-> None]
    IN IF i = {}
       THEN IF IsNone(default) THEN Raise("RuntimeError: parameter was not found")
            ELSE [exc |-> "", x |-> default]
       ELSE IF Cardinality(i) > 1 THEN Raise("RuntimeError: parameter was found many times")
       ELSE IF Len(x) > 1
       THEN IF join THEN [exc |-> "", x |-> Some(Concat(x, Len(x)))]
            ELSE Raise("RuntimeError: length found rather than length 1")
       ELSE IF Len(x) = 0 THEN Raise("IndexError")
       ELSE [exc |-> "", x |-> Some(x[1])]

\* tp(x) for int and float: a string of one word is a number
ToNumber(r) ==
    IF r.exc # "" THEN r
    ELSE IF Len(Val(r.x)) # 1 THEN [exc |-> "ValueError", x |-> None]
    ELSE r

RECURSIVE Prod(_, _)
\* np.prod of the first n numbers of a list
Prod(l, n) == IF n = 0 THEN 1 ELSE Prod(l, n - 1) * l[n]

\* ParserW90.parse_header, lines 591-601
W90_parse_header(fwin) ==
    LET nb == ToNumber(get_param(fwin, "num_bands", None, FALSE))
        sp == get_param(fwin, "spinors", None, FALSE)
        mp == get_param(fwin, "mp_grid", None, FALSE)
        Raise(e) == [exc |-> e, NK |-> None, NBin |-> None]
    IN IF nb.exc # "" THEN Raise(nb.exc)
       ELSE IF sp.exc # "" THEN Raise(sp.exc)
       ELSE IF mp.exc # "" THEN Raise(mp.exc)
       ELSE [exc |-> "", NK |-> Some(Prod(Val(mp.x), Len(Val(mp.x)))),
             NBin |-> Some(Val(nb.x)[1])]

Separators == {"=", ":", " "}
GridLines ==
    { WinLine("mp_grid", sep, <<a, b, c>>) :
        sep \in Separators, a \in 1..MaxGrid, b \in 1..MaxGrid, c \in 1..MaxGrid }
BandLines ==
    { WinLine("num_bands", sep, w) : sep \in Separators, w \in {<<1>>, <<1, 2>>} }
SpinorLine == WinLine("spinors", "=", <<"t">>)

\* .win files: num_bands, spinors, and mp_grid written never, once or twice
WinFiles ==
    { <<nb, SpinorLine>> \o g :
        nb \in BandLines,
        g \in {<<>>} \cup { <<l>> : l \in GridLines }
                     \cup { <<l, WinLine("mp_grid", "=", <<1, 1, 1>>)>> : l \in GridLines } }

InitW90 ==
    /\ call \in { Some([fn |-> "ParserW90", win |-> w]) : w \in WinFiles }
    /\ ret = None
    /\ IdleParser /\ IdleBS /\ IdleSort

\* ParserW90(prefix).parse_header()
call_W90_parse_header ==
    /\ ~IsNone(call) /\ Val(call).fn = "ParserW90" /\ IsNone(ret)
    /\ ret' = Some(W90_parse_header(W90_init(Val(call).win)))
    /\ UNCHANGED <<parserVars, bsVars, sortVars, call>>

NextW90 == call_W90_parse_header

SpecW90 == InitW90 /\ [][NextW90]_vars

\* C18: parse_header obtains NK as the product of the three mp_grid integers for
\* every form of assignment the reader accepts ('mp_grid = a b c', 'mp_grid : a
\* b c', 'mp_grid a b c'); get_param raises a RuntimeError only when the key is
\* missing without a default, occurs more than once, or a parameter other than
\* mp_grid has a value of several elements.
C18_MpGrid ==
    (~IsNone(ret) /\ Val(call).fn = "ParserW90") =>
        LET win == Val(call).win
            r == Val(ret)
            grids == { n \in 1..Len(win) : win[n].key = "mp_grid" }
            several == \E n \in 1..Len(win) :
                          /\ win[n].key # "mp_grid" /\ win[n].sep = " "
                          /\ Len(win[n].words) > 1
            runtime == r.exc \in {"RuntimeError: parameter was not found",
                                  "RuntimeError: parameter was found many times",
                                  "RuntimeError: length found rather than length 1"}
        IN /\ (Cardinality(grids) = 1 /\ Len(win[1].words) = 1) =>
                 LET g == win[CHOOSE n \in grids : TRUE].words IN
                 r.exc = "" /\ r.NK = Some(g[1] * g[2] * g[3])
           /\ runtime => (grids = {} \/ Cardinality(grids) > 1 \/ several)

====
